---------------------------- MODULE Spec2Model ----------------------------
(***************************************************************************)
(* Model of the Bandersnatch chess engine core (bandersnatch-wasm/src).    *)
(*                                                                         *)
(* The engine is one mutable object.  Its fields are the VARIABLES below;  *)
(* every method of `impl Engine` is an operator over an engine record `e`  *)
(* (the value of `self`), named as in the source, returning the record     *)
(* after the call (and the return value, where there is one).  The public  *)
(* entry points are the actions of Next.                                   *)
(*                                                                         *)
(* Conventions                                                             *)
(*  - Piece codes, castle bits and square indices are the integers of the  *)
(*    source.  Vec<T> is a sequence (1-based here, 0-based in the source). *)
(*  - A 64-bit Zobrist word zobrist_hash_table[i][j] is the symbol <<i,j>> *)
(*    and a hash value is the set of words XOR-ed into it (XOR is          *)
(*    symmetric difference): the random table is taken as 835 linearly     *)
(*    independent words, so two hashes are equal iff they are equal for    *)
(*    every table.                                                         *)
(*  - usize arithmetic wraps as in a release build; an out-of-range index  *)
(*    or a failed unwrap() is a panic: the record's `panicked` flag is set *)
(*    and the fields keep what was written before the panic.               *)
(*  - now() is the host clock: a timed search receives `cut`, the reading *)
(*    of now() at which the time budget is found to have run out.          *)
(***************************************************************************)
EXTENDS Integers, Sequences, FiniteSets, TLC

VARIABLES
    fen_to_piece_map, board, board_hash, white_turn, castle_status,
    en_passant_square, move_count, move_rep_count, board_deltas,
    piece_locations, pinned_pieces, repetition_history, saved_evaluations,
    castled_this_turn, piece_captured_this_turn, in_check, all_valid_moves,
    best_move, best_move_this_iteration, depth_searched_last_turn,
    panicked,
    last_call, loaded, ops, searches, perfts, rejected

vars == << fen_to_piece_map, board, board_hash, white_turn, castle_status,
           en_passant_square, move_count, move_rep_count, board_deltas,
           piece_locations, pinned_pieces, repetition_history,
           saved_evaluations, castled_this_turn, piece_captured_this_turn,
           in_check, all_valid_moves, best_move, best_move_this_iteration,
           depth_searched_last_turn, panicked, last_call, loaded, ops,
           searches, perfts, rejected >>

(***************************************************************************)
(* Bounds of the model.                                                    *)
(***************************************************************************)
\* calls of parse_fen, and moves applied before the last attempt_move
MaxLoads == 2
MaxOps == 1
\* calls of the search entry points, their depth, and the readings of the
\* clock inside one iteration at which the budget may run out
MaxSearches == 2
MaxDepth == 1
MaxClock == 2

(***************************************************************************)
(* defs.rs: piece codes, castle flags, piece values.                       *)
(***************************************************************************)
Empty == 0
King_B == 1
Queen_B == 2
Rook_B == 3
Bishop_B == 4
Knight_B == 5
Pawn_B == 6
King_W == 7
Queen_W == 8
Rook_W == 9
Bishop_W == 10
Knight_W == 11
Pawn_W == 12

UNSET == 0
WHITE_KING == 1
WHITE_QUEEN == 2
BLACK_KING == 4
BLACK_QUEEN == 8

Value_PAWN == 100
Value_KNIGHT == 300
Value_BISHOP == 300
Value_ROOK == 500
Value_QUEEN == 900

I32_MIN == (-2147483647) - 1
I32_MAX == 2147483647

Squares == 0..63

from_num(num) == IF num \in 1..12 THEN num ELSE Empty

\* bitflags: (status & flag) is not empty
HasFlag(status, flag) == (status \div flag) % 2 = 1
\* bitflags: status | flag
SetFlag(status, flag) == IF HasFlag(status, flag) THEN status ELSE status + flag
\* bitflags: status ^ flag
ToggleFlag(status, flag) ==
    IF HasFlag(status, flag) THEN status - flag ELSE status + flag

\* bitflags: status & !flag
ClearFlag(status, flag) == IF HasFlag(status, flag) THEN status - flag ELSE status

\* (index as f32 * 0.125) as usize, exact for 0..63
RowOf(index) == index \div 8
ColOf(index) == index % 8

\* let v = ..; the value is computed once and named by F's parameter
Let(v, F(_)) == F(v)

\* two such values at once
Let2(v, w, F(_, _)) == F(v, w)

(***************************************************************************)
(* Loops.  `for i in lo..hi` threading a state s through Op(s, i); the     *)
(* range is cut in four so that the evaluation depth stays logarithmic,    *)
(* and each quarter is evaluated (as the one element of a set) before the  *)
(* next begins.                                                            *)
(***************************************************************************)
RECURSIVE FoldRange(_, _, _, _)
FoldRange(Op(_, _), s, lo, hi) ==
    IF hi <= lo + 1 THEN (IF hi <= lo THEN s ELSE Op(s, lo))
    ELSE CHOOSE r \in
            {FoldRange(Op, c, lo + (3 * (hi - lo)) \div 4, hi) : c \in
            {FoldRange(Op, b, lo + (hi - lo) \div 2,
                       lo + (3 * (hi - lo)) \div 4) : b \in
            {FoldRange(Op, a, lo + (hi - lo) \div 4,
                       lo + (hi - lo) \div 2) : a \in
            {FoldRange(Op, s, lo, lo + (hi - lo) \div 4)}}}} : TRUE

\* Vec::iter().position(|&r| r == x), 1-based; 0 for None
Position(list, x) ==
    IF \E i \in 1..Len(list) : list[i] = x
    THEN CHOOSE i \in 1..Len(list) :
            list[i] = x /\ \A j \in 1..(i - 1) : list[j] # x
    ELSE 0

\* Vec::contains
Contains(list, x) == \E i \in 1..Len(list) : list[i] = x

DefaultMove == [from |-> 0, to |-> 0, data |-> 0, score |-> 0]

(***************************************************************************)
(* Engine::new                                                             *)
(***************************************************************************)
EngineNew ==
    [ fen_to_piece_map |->
        ( "K" :> King_W @@ "Q" :> Queen_W @@ "R" :> Rook_W @@
          "B" :> Bishop_W @@ "N" :> Knight_W @@ "P" :> Pawn_W @@
          "k" :> King_B @@ "q" :> Queen_B @@ "r" :> Rook_B @@
          "b" :> Bishop_B @@ "n" :> Knight_B @@ "p" :> Pawn_B ),
      board |-> [s \in Squares |-> Empty],
      board_hash |-> {},
      white_turn |-> TRUE,
      castle_status |-> UNSET,
      en_passant_square |-> 0,
      move_count |-> 0,
      move_rep_count |-> 0,
      board_deltas |-> << >>,
      piece_locations |-> [c \in 0..14 |-> << >>],
      pinned_pieces |-> << >>,
      repetition_history |-> << >>,
      saved_evaluations |-> << >>,
      castled_this_turn |-> FALSE,
      piece_captured_this_turn |-> FALSE,
      in_check |-> FALSE,
      all_valid_moves |-> << >>,
      best_move |-> DefaultMove,
      best_move_this_iteration |-> DefaultMove,
      depth_searched_last_turn |-> 0,
      panicked |-> FALSE ]

(***************************************************************************)
(* Location lists.                                                         *)
(***************************************************************************)
\* Vec::push on piece_locations[piece]
push_location(e, piece, index) ==
    [e EXCEPT !.piece_locations[piece] = Append(@, index)]

remove_piece(e, piece, index) ==
    LET list == e.piece_locations[piece]
        i == Position(list, index)
        n == Len(list)
    IN  IF i = 0 THEN e
        ELSE [e EXCEPT !.piece_locations[piece] =
                    SubSeq([list EXCEPT ![i] = list[n]], 1, n - 1)]

move_piece(e, piece, index, new_location) ==
    LET i == Position(e.piece_locations[piece], index)
    IN  IF i = 0 THEN e
        ELSE [e EXCEPT !.piece_locations[piece][i] = new_location]

(***************************************************************************)
(* Zobrist hashing.                                                        *)
(***************************************************************************)
\* hash ^= zobrist_hash_table[i][j]
Xor(hash, i, j) ==
    IF <<i, j>> \in hash THEN hash \ {<<i, j>>} ELSE hash \cup {<<i, j>>}

hash_board(e) ==
    LET pieces == {<<i, e.board[i] - 1>> : i \in {s \in Squares : e.board[s] # Empty}}
        castles == {<<64, k>> : k \in {k \in 0..3 :
                        HasFlag(e.castle_status,
                                CASE k = 0 -> WHITE_KING [] k = 1 -> WHITE_QUEEN
                                  [] k = 2 -> BLACK_KING [] OTHER -> BLACK_QUEEN)}}
        turn == IF e.white_turn THEN {<<65, 0>>} ELSE {}
        passant == IF e.en_passant_square # -1
                   THEN {<<66, e.en_passant_square>>} ELSE {}
    IN  pieces \cup castles \cup turn \cup passant

(***************************************************************************)
(* Move generator.  The generator's operators return what they push onto   *)
(* in_array (arr), what they push onto self.pinned_pieces (pins) and       *)
(* whether an index went out of range (panic).                             *)
(***************************************************************************)
NoSquares == [arr |-> << >>, pins |-> << >>, panic |-> FALSE]

Join(a, b) == [arr |-> a.arr \o b.arr, pins |-> a.pins \o b.pins,
               panic |-> a.panic \/ b.panic]

\* the test of the colour of trace_valid_squares, passing any piece
IsEnemyOrFriend(white, code) == code >= 1 /\ code <= 12

\* (white && code < 7) || (!white && code >= 7), for a non-empty square
IsEnemyOf(white, code) == (white /\ code < 7) \/ (~white /\ code >= 7)

\* the four edge tests that end the loop of trace_valid_squares
AtEdge(slope_x, slope_y, x, y) ==
    \/ slope_x = -1 /\ x = 0
    \/ slope_x = 1 /\ x = 7
    \/ slope_y = -1 /\ y = 0
    \/ slope_y = 1 /\ y = 7

\* one iteration of the while loop of trace_valid_squares, and the rest
RECURSIVE TraceLoop(_, _, _, _, _, _, _, _, _, _, _, _)
TraceLoop(b, index, slope_x, slope_y, white, empty_only, update_pins,
          cur, x, y, obstructed, obstructed_index) ==
    LET here == b[cur]
        next(obs, obsidx) ==
            IF AtEdge(slope_x, slope_y, x, y) THEN NoSquares
            ELSE TraceLoop(b, index, slope_x, slope_y, white, empty_only,
                           update_pins, cur + slope_x + slope_y * 8,
                           x + slope_x, y + slope_y, obs, obsidx)
    IN  IF cur = index THEN next(obstructed, obstructed_index)
        ELSE IF ~obstructed THEN
            IF empty_only THEN
                IF here = Empty
                THEN Join([NoSquares EXCEPT !.arr = <<cur>>], next(FALSE, cur))
                ELSE NoSquares
            ELSE IF here = Empty \/ IsEnemyOf(white, here)
                 THEN Join([NoSquares EXCEPT !.arr = <<cur>>],
                           next(here # Empty, cur))
                 ELSE next(here # Empty, cur)
        ELSE IF update_pins THEN
            IF here = King_W \/ here = King_B \/ here = Empty THEN
                IF white /\ here = King_B /\ here < 7
                THEN [NoSquares EXCEPT !.pins = <<obstructed_index>>]
                ELSE IF ~white /\ here = King_W /\ here >= 7
                THEN [NoSquares EXCEPT !.pins = <<obstructed_index>>]
                ELSE next(obstructed, obstructed_index)
            ELSE NoSquares
        ELSE NoSquares

trace_valid_squares(b, index, slope_x, slope_y, white, empty_only,
                    update_pins, x, y) ==
    TraceLoop(b, index, slope_x, slope_y, white, empty_only, update_pins,
              index, x, y, FALSE, 0)

\* FreeOrEnemy without the test of the colour
FreeOrAnyPiece(b, to, is_white) ==
    b[to] = Empty \/ (b[to] >= 1 /\ b[to] <= 12)

\* board[to] == Empty || (min <= board[to] <= max)
FreeOrEnemy(b, to, is_white) ==
    b[to] = Empty \/ (b[to] >= (IF is_white THEN 1 ELSE 7)
                      /\ b[to] <= (IF is_white THEN 6 ELSE 12))

\* a conditional in_array.push(to)
PushIf(cond, to) == IF cond THEN <<to>> ELSE << >>

\* the slopes traced for a rook and for a bishop, in the order of the calls
RookSlopes == << <<1, 0>>, <<-1, 0>>, <<0, 1>>, <<0, -1>> >>

BishopSlopes == << <<1, -1>>, <<-1, -1>>, <<1, 1>>, <<-1, 1>> >>

\* the consecutive calls of trace_valid_squares of one match arm
TraceSlopes(b, index, slopes, w, up, x, y) ==
    FoldRange(LAMBDA acc, k :
                  Join(acc, trace_valid_squares(b, index, slopes[k][1],
                                                slopes[k][2], w, FALSE, up,
                                                x, y)),
              NoSquares, 1, Len(slopes) + 1)

ValidSquaresPawn(b, passant, index, is_white, attack_only, x, y) ==
    LET fwd == IF is_white THEN index - 8 ELSE index + 8
        two == IF is_white THEN index - 16 ELSE index + 16
        start_y == IF is_white THEN 6 ELSE 1
        x_min == x >= 1
        x_max == x < 7
        capture(to) ==
            ((attack_only \/ b[to] # Empty) /\ FreeOrEnemy(b, to, is_white))
            \/ to = passant
        panic == \/ ~attack_only /\ fwd \notin Squares
                 \/ x_max /\ (fwd + 1) \notin Squares
                 \/ x_min /\ (fwd - 1) \notin Squares
    IN  IF panic THEN [NoSquares EXCEPT !.panic = TRUE]
        ELSE [NoSquares EXCEPT !.arr =
                PushIf(~attack_only /\ b[fwd] = Empty, fwd)
             \o PushIf(~attack_only /\ y = start_y
                       /\ b[two] = Empty /\ b[fwd] = Empty, two)
             \o PushIf(x_max /\ capture(fwd + 1), fwd + 1)
             \o PushIf(x_min /\ capture(fwd - 1), fwd - 1)]

ValidSquaresKing(b, index, is_white, x, y) ==
    LET x_min == x >= 1
        x_max == x < 7
        y_min == y >= 1
        y_max == y < 7
        ok(to) == FreeOrEnemy(b, to, is_white)
    IN  [NoSquares EXCEPT !.arr =
            ((PushIf(x_min /\ y_min /\ ok(index - 9), index - 9)
              \o PushIf(y_min /\ ok(index - 8), index - 8))
             \o (PushIf(x_max /\ y_min /\ ok(index - 7), index - 7)
                 \o PushIf(x_min /\ ok(index - 1), index - 1)))
         \o ((PushIf(x_max /\ ok(index + 1), index + 1)
              \o PushIf(x_min /\ y_max /\ ok(index + 7), index + 7))
             \o (PushIf(y_max /\ ok(index + 8), index + 8)
                 \o PushIf(x_max /\ y_max /\ ok(index + 9), index + 9)))]

ValidSquaresKnight(b, index, is_white, x, y) ==
    LET ok(to) == FreeOrEnemy(b, to, is_white)
    IN  [NoSquares EXCEPT !.arr =
            ((PushIf(x >= 2 /\ y >= 1 /\ ok(index - 10), index - 10)
              \o PushIf(x >= 2 /\ y <= 6 /\ ok(index + 6), index + 6))
             \o (PushIf(x <= 5 /\ y <= 6 /\ ok(index + 10), index + 10)
                 \o PushIf(x <= 5 /\ y >= 1 /\ ok(index - 6), index - 6)))
         \o ((PushIf(y >= 2 /\ x >= 1 /\ ok(index - 17), index - 17)
              \o PushIf(y >= 2 /\ x <= 6 /\ ok(index - 15), index - 15))
             \o (PushIf(y <= 5 /\ x <= 6 /\ ok(index + 17), index + 17)
                 \o PushIf(y <= 5 /\ x >= 1 /\ ok(index + 15), index + 15)))]

\* get_valid_squares reads self.board and self.en_passant_square
get_valid_squares(b, passant, index, piece, attack_only, update_pins) ==
    CASE piece \in {Rook_W, Rook_B, Queen_W, Queen_B, Bishop_W, Bishop_B} ->
            TraceSlopes(b, index,
                        CASE piece \in {Rook_W, Rook_B} -> RookSlopes
                          [] piece \in {Queen_W, Queen_B} ->
                                RookSlopes \o BishopSlopes
                          [] OTHER -> BishopSlopes,
                        piece >= 7, update_pins, ColOf(index), RowOf(index))
      [] piece = Pawn_W \/ piece = Pawn_B ->
            ValidSquaresPawn(b, passant, index, piece >= 7, attack_only,
                             ColOf(index), RowOf(index))
      [] piece = King_W \/ piece = King_B ->
            ValidSquaresKing(b, index, piece >= 7, ColOf(index), RowOf(index))
      [] piece = Knight_W \/ piece = Knight_B ->
            ValidSquaresKnight(b, index, piece >= 7, ColOf(index),
                               RowOf(index))
      [] OTHER -> NoSquares

\* the (piece, location) pairs visited by `for i in start..=end, for j in 0..len`
PieceList(locs, start_index, end_index) ==
    LET one(i) == [j \in 1..Len(locs[i]) |-> <<i, locs[i][j]>>]
    IN  one(start_index) \o one(start_index + 1) \o one(start_index + 2)
        \o one(start_index + 3) \o one(start_index + 4) \o one(end_index)

\* get_attacked_squares reads board, en_passant_square and piece_locations;
\* once an index is out of range nothing more is generated
get_attacked_squares(b, passant, locs, white, to_index, update_pins) ==
    Let(PieceList(locs, IF white THEN 1 ELSE 7, IF white THEN 6 ELSE 12),
        LAMBDA todo :
            FoldRange(LAMBDA acc, k :
                          IF acc.panic \/ todo[k][2] = to_index THEN acc
                          ELSE Join(acc, get_valid_squares(
                                             b, passant, todo[k][2],
                                             from_num(todo[k][1]), TRUE,
                                             update_pins)),
                      NoSquares, 1, Len(todo) + 1))

EvalMove(from, to, data) == [from |-> from, to |-> to, data |-> data, score |-> 0]

\* the test of one wing with the king's own square left out of the squares
\* that must not be attacked
CastleWingInCheck(e, attacked_squares, w) ==
    IF /\ HasFlag(e.castle_status, w.flag)
       /\ e.board[w.rook_sq] = w.rook
       /\ Len(trace_valid_squares(e.board, w.king, w.slope_x, 0, w.white,
                                  TRUE, FALSE, 4, w.y).arr) = w.gap
       /\ ~Contains(attacked_squares, w.pass)
       /\ ~Contains(attacked_squares, w.to)
    THEN <<EvalMove(w.king, w.to, Empty)>>
    ELSE << >>

\* one wing of get_valid_castle_squares: the trace from the king's home
\* square towards the rook, the right, the rook, and the attack tests
CastleWing(e, attacked_squares, w) ==
    IF /\ HasFlag(e.castle_status, w.flag)
       /\ e.board[w.rook_sq] = w.rook
       /\ Len(trace_valid_squares(e.board, w.king, w.slope_x, 0, w.white,
                                  TRUE, FALSE, 4, w.y).arr) = w.gap
       /\ ~Contains(attacked_squares, w.king)
       /\ ~Contains(attacked_squares, w.pass)
       /\ ~Contains(attacked_squares, w.to)
    THEN <<EvalMove(w.king, w.to, Empty)>>
    ELSE << >>

\* the squares and the right of each wing, king side first
Wing(king, slope_x, y, white, flag, rook_sq, rook, gap, pass, to) ==
    [king |-> king, slope_x |-> slope_x, y |-> y, white |-> white,
     flag |-> flag, rook_sq |-> rook_sq, rook |-> rook, gap |-> gap,
     pass |-> pass, to |-> to]

Wings(white) ==
    IF white
    THEN << Wing(60, 1, 7, TRUE, WHITE_KING, 63, Rook_W, 2, 61, 62),
            Wing(60, -1, 7, TRUE, WHITE_QUEEN, 56, Rook_W, 3, 59, 58) >>
    ELSE << Wing(4, 1, 0, FALSE, BLACK_KING, 7, Rook_B, 2, 5, 6),
            Wing(4, -1, 0, FALSE, BLACK_QUEEN, 0, Rook_B, 3, 3, 2) >>

get_valid_castle_squares(e, attacked_squares) ==
    FoldRange(LAMBDA acc, k :
                  acc \o CastleWing(e, attacked_squares,
                                    Wings(e.white_turn)[k]),
              << >>, 1, 3)

\* piece_locations[King][0] of an empty list: index out of range
KingMissing(e, white) ==
    Len(e.piece_locations[IF white THEN King_W ELSE King_B]) = 0

is_in_check_attacked_squares(e, white, attacked_squares) ==
    Contains(attacked_squares,
             e.piece_locations[IF white THEN King_W ELSE King_B][1])

\* is_in_check: [ret, panic]
is_in_check(e, white) ==
    Let(get_attacked_squares(e.board, e.en_passant_square, e.piece_locations,
                             white, -1, FALSE),
        LAMBDA att :
            IF att.panic \/ KingMissing(e, white)
            THEN [ret |-> FALSE, panic |-> TRUE]
            ELSE [ret |-> is_in_check_attacked_squares(e, white, att.arr),
                  panic |-> FALSE])

NoMoves == [moves |-> << >>, panic |-> FALSE]

JoinMoves(a, b) == [moves |-> a.moves \o b.moves, panic |-> a.panic \/ b.panic]

\* the entries pushed for one destination: four promotions or one move
Expand(piece, location, checking_index) ==
    LET y == RowOf(checking_index)
    IN  IF piece = Pawn_W /\ y = 0
        THEN << EvalMove(location, checking_index, Queen_W),
                EvalMove(location, checking_index, Rook_W),
                EvalMove(location, checking_index, Bishop_W),
                EvalMove(location, checking_index, Knight_W) >>
        ELSE IF piece = Pawn_B /\ y = 7
        THEN << EvalMove(location, checking_index, Queen_B),
                EvalMove(location, checking_index, Rook_B),
                EvalMove(location, checking_index, Bishop_B),
                EvalMove(location, checking_index, Knight_B) >>
        ELSE << EvalMove(location, checking_index, Empty) >>

\* SkipQuiet that lets the en passant target through
SkipQuietButPassant(e, checking_index, captures_only) ==
    /\ captures_only
    /\ e.board[checking_index] = Empty
    /\ checking_index # e.en_passant_square

\* if captures_only && self.board[checking_index] == Piece::Empty { continue }
SkipQuiet(e, checking_index, captures_only) ==
    captures_only /\ e.board[checking_index] = Empty

\* the body of `for k in 0..local_valid_len` of get_all_valid_moves
MovesToSquare(e, pinned, is_checked, piece, location, checking_index,
              captures_only) ==
    IF SkipQuiet(e, checking_index, captures_only) THEN NoMoves
    ELSE IF is_checked \/ Contains(pinned, location)
            \/ piece = King_W \/ piece = King_B
    THEN Let(get_attacked_squares(
                 [e.board EXCEPT ![checking_index] = piece, ![location] = Empty],
                 e.en_passant_square, e.piece_locations, e.white_turn,
                 checking_index, FALSE),
             LAMBDA local_attacked :
                 IF local_attacked.panic THEN [NoMoves EXCEPT !.panic = TRUE]
                 ELSE IF IF piece = King_W \/ piece = King_B
                         THEN Contains(local_attacked.arr, checking_index)
                         ELSE is_in_check_attacked_squares(e, e.white_turn,
                                                           local_attacked.arr)
                 THEN NoMoves
                 ELSE [NoMoves EXCEPT
                          !.moves = Expand(piece, location, checking_index)])
    ELSE [NoMoves EXCEPT !.moves = Expand(piece, location, checking_index)]

\* the body of `for j in 0..len` of get_all_valid_moves
MovesOfPiece(e, pinned, is_checked, piece, location, captures_only) ==
    Let(get_valid_squares(e.board, e.en_passant_square, location, piece,
                          captures_only, FALSE),
        LAMBDA local_valid :
            IF local_valid.panic THEN [NoMoves EXCEPT !.panic = TRUE]
            ELSE FoldRange(LAMBDA acc, k :
                               IF acc.panic THEN acc
                               ELSE JoinMoves(acc,
                                        MovesToSquare(e, pinned, is_checked,
                                                      piece, location,
                                                      local_valid.arr[k],
                                                      captures_only)),
                           NoMoves, 1, Len(local_valid.arr) + 1))

\* get_all_valid_moves: [moves, attacked, pins, panic]; attacked is the
\* caller's vector after the call and pins is self.pinned_pieces after it
get_all_valid_moves(e, captures_only, attacked_squares) ==
    Let(IF Len(attacked_squares) = 0
        THEN get_attacked_squares(e.board, e.en_passant_square,
                                  e.piece_locations, e.white_turn, -1, TRUE)
        ELSE [arr |-> attacked_squares, pins |-> e.pinned_pieces,
              panic |-> FALSE],
        LAMBDA att :
        IF att.panic \/ KingMissing(e, e.white_turn)
        THEN [moves |-> << >>, attacked |-> att.arr, pins |-> att.pins,
              panic |-> TRUE]
        ELSE
    Let2(is_in_check_attacked_squares(e, e.white_turn, att.arr),
         PieceList(e.piece_locations, IF e.white_turn THEN 7 ELSE 1,
                   IF e.white_turn THEN 12 ELSE 6),
         LAMBDA in_chk, todo :
    Let(FoldRange(LAMBDA acc, k :
                      IF acc.panic THEN acc
                      ELSE JoinMoves(acc, MovesOfPiece(e, att.pins, in_chk,
                                                       todo[k][1], todo[k][2],
                                                       captures_only)),
                  [NoMoves EXCEPT !.moves =
                      IF captures_only THEN << >>
                      ELSE get_valid_castle_squares(e, att.arr)],
                  1, Len(todo) + 1),
        LAMBDA all :
            [moves |-> all.moves, attacked |-> att.arr, pins |-> att.pins,
             panic |-> all.panic])))

(***************************************************************************)
(* Make / unmake.                                                          *)
(***************************************************************************)
BoardDelta(index, piece, target) ==
    [index |-> index, piece |-> piece, target |-> target]

\* self.board_deltas.push(..)
push_delta(e, index, piece, target) ==
    [e EXCEPT !.board_deltas = Append(@, BoardDelta(index, piece, target))]

finish_turn(e) ==
    Let([e EXCEPT !.white_turn = ~e.white_turn, !.board_deltas = << >>],
        LAMBDA e1 :
    Let([e1 EXCEPT !.board_hash = hash_board(e1)], LAMBDA e2 :
    Let(get_all_valid_moves(e2, FALSE, << >>), LAMBDA gen :
        IF gen.panic THEN [e2 EXCEPT !.panicked = TRUE]
        ELSE
        Let([e2 EXCEPT !.pinned_pieces = gen.pins,
                       !.all_valid_moves = gen.moves], LAMBDA e3 :
        Let(is_in_check(e3, e3.white_turn), LAMBDA chk :
            IF chk.panic THEN [e3 EXCEPT !.panicked = TRUE]
            ELSE [e3 EXCEPT !.in_check = chk.ret,
                            !.saved_evaluations = << >>,
                            !.move_count = e.move_count + 1,
                            !.move_rep_count = e.move_rep_count + 1])))))

\* the promotion check of force_make_move
MakePromotion(e, moving_piece, from_index, to_index, data) ==
    IF (moving_piece = Pawn_W /\ RowOf(to_index) = 0)
       \/ (moving_piece = Pawn_B /\ RowOf(to_index) = 7)
    THEN push_delta(
            push_location(
                remove_piece([e EXCEPT !.board[to_index] = data],
                             moving_piece, from_index),
                data, to_index),
            -1, data, to_index)
    ELSE e

\* the en passant check of force_make_move
MakeEnPassant(e, moving_piece, to_index) ==
    IF to_index = e.en_passant_square /\ moving_piece = Pawn_W
    THEN [push_delta(e, to_index + 8, Pawn_B, -1)
            EXCEPT !.board[to_index + 8] = Empty]
    ELSE IF to_index = e.en_passant_square /\ moving_piece = Pawn_B
    THEN [push_delta(e, to_index - 8, Pawn_W, -1)
            EXCEPT !.board[to_index - 8] = Empty]
    ELSE e

\* NextEnPassant without the test of the moving piece
NextEnPassantAnyPiece(moving_piece, from_index, to_index) ==
    IF from_index - to_index = 16 THEN from_index - 8
    ELSE IF to_index - from_index = 16 THEN from_index + 8
    ELSE -1

\* the new en passant target of force_make_move
NextEnPassant(moving_piece, from_index, to_index) ==
    IF moving_piece = Pawn_W /\ from_index - to_index = 16 THEN from_index - 8
    ELSE IF moving_piece = Pawn_B /\ to_index - from_index = 16
    THEN from_index + 8
    ELSE -1

\* MakeRepetition that pushes the hash after every move
MakeRepetitionAlways(e, moving_piece, captured_piece) ==
    [e EXCEPT !.repetition_history = Append(@, e.board_hash)]

\* the repetition history update that follows finish_turn
MakeRepetition(e, moving_piece, captured_piece) ==
    IF moving_piece = Pawn_W \/ moving_piece = Pawn_B
       \/ captured_piece # Empty
    THEN [e EXCEPT !.repetition_history = << >>, !.move_rep_count = 0]
    ELSE [e EXCEPT !.repetition_history = Append(@, e.board_hash)]

force_make_move(e, from_index, to_index, data, finish) ==
    LET moving_piece == e.board[from_index]
        captured_piece == e.board[to_index]
    IN
    Let([push_delta(push_delta(e, to_index, captured_piece, -1),
                    from_index, moving_piece, to_index)
         EXCEPT !.board[to_index] = moving_piece, !.board[from_index] = Empty],
        LAMBDA e2 :
    Let(MakePromotion(e2, moving_piece, from_index, to_index, data), LAMBDA e3 :
    Let([MakeEnPassant(e3, moving_piece, to_index)
         EXCEPT !.en_passant_square =
                    NextEnPassant(moving_piece, from_index, to_index)],
        LAMBDA e5 :
    Let(IF Len(e3.board_deltas) # Len(e2.board_deltas) THEN e5
        ELSE move_piece(e5, moving_piece, from_index, to_index), LAMBDA e6 :
    Let(IF captured_piece # Empty
        THEN remove_piece(e6, captured_piece, to_index) ELSE e6, LAMBDA e7 :
        IF ~finish THEN e7
        ELSE Let(finish_turn(e7), LAMBDA e8 :
                 IF e8.panicked THEN e8
                 ELSE MakeRepetition(e8, moving_piece, captured_piece)))))))

\* the body of `for elem in deltas.iter()` of unmake_move
UnmakeDelta(e, elem) ==
    Let(IF elem.piece = Empty THEN e
        ELSE IF elem.index = -1
        THEN remove_piece(e, elem.piece, elem.target)
        ELSE IF e.board[elem.index] # Empty
        THEN push_location(e, elem.piece, elem.index)
        ELSE IF elem.target # -1
        THEN Let(Position(e.piece_locations[elem.piece], elem.target),
                 LAMBDA i :
                     IF i # 0
                     THEN [e EXCEPT !.piece_locations[elem.piece][i] = elem.index]
                     ELSE push_location(e, elem.piece, elem.index))
        ELSE e,
        LAMBDA e1 :
            IF elem.index # -1
            THEN [e1 EXCEPT !.board[elem.index] = elem.piece]
            ELSE e1)

unmake_move(e, deltas) ==
    FoldRange(LAMBDA acc, k : UnmakeDelta(acc, deltas[k]),
              [e EXCEPT !.white_turn = ~e.white_turn], 1, Len(deltas) + 1)

\* one castling branch of update_castle_status: the rook's two deltas,
\* its location entry and the two board squares
CastleRook(e, rook, rook_from, rook_to) ==
    [move_piece(
        push_delta(push_delta(e, rook_from, e.board[rook_from], rook_to),
                   rook_to, e.board[rook_to], -1),
        rook, rook_from, rook_to)
     EXCEPT !.board[rook_from] = Empty, !.board[rook_to] = rook]

\* update_castle_status: [e, ret]
update_castle_status(e, from_index, to_index) ==
    LET moving_piece == e.board[from_index]
        st == e.castle_status
        clear(x, f) == [x EXCEPT !.castle_status = ClearFlag(@, f)]
        king(r, f, g) == [r EXCEPT !.e = clear(clear(r.e, f), g)]
    IN  IF moving_piece = King_W THEN
            king(IF HasFlag(st, WHITE_KING) /\ to_index = 62
                 THEN [e |-> CastleRook(e, Rook_W, 63, 61), ret |-> TRUE]
                 ELSE IF HasFlag(st, WHITE_QUEEN) /\ to_index = 58
                 THEN [e |-> CastleRook(e, Rook_W, 56, 59), ret |-> TRUE]
                 ELSE [e |-> e, ret |-> FALSE],
                 WHITE_KING, WHITE_QUEEN)
        ELSE IF moving_piece = King_B THEN
            king(IF HasFlag(st, BLACK_KING) /\ to_index = 6
                 THEN [e |-> CastleRook(e, Rook_B, 7, 5), ret |-> TRUE]
                 ELSE IF HasFlag(st, BLACK_QUEEN) /\ to_index = 2
                 THEN [e |-> CastleRook(e, Rook_B, 0, 3), ret |-> TRUE]
                 ELSE [e |-> e, ret |-> FALSE],
                 BLACK_KING, BLACK_QUEEN)
        ELSE IF moving_piece = Rook_W /\ from_index = 56
        THEN [e |-> clear(e, WHITE_QUEEN), ret |-> FALSE]
        ELSE IF moving_piece = Rook_W /\ from_index = 63
        THEN [e |-> clear(e, WHITE_KING), ret |-> FALSE]
        ELSE IF moving_piece = Rook_B /\ from_index = 0
        THEN [e |-> clear(e, BLACK_QUEEN), ret |-> FALSE]
        ELSE IF moving_piece = Rook_B /\ from_index = 7
        THEN [e |-> clear(e, BLACK_KING), ret |-> FALSE]
        ELSE [e |-> e, ret |-> FALSE]

\* the body of `for elem in deltas.iter()` of update_hash
HashDelta(e, hash, elem) ==
    IF elem.index = -1 THEN hash
    ELSE LET piece == elem.piece - 1
             new_piece == e.board[elem.index] - 1
             h1 == IF piece >= 0 THEN Xor(hash, elem.index, piece) ELSE hash
         IN  IF new_piece >= 0 THEN Xor(h1, elem.index, new_piece) ELSE h1

\* the castle word k is flipped when its right changed
HashCastle(e, hash, old_castle_status, flag, k) ==
    IF HasFlag(old_castle_status, flag) # HasFlag(e.castle_status, flag)
    THEN Xor(hash, 64, k) ELSE hash

update_hash(e, deltas, current_hash, old_en_passant, old_castle_status) ==
    Let(FoldRange(LAMBDA acc, k : HashDelta(e, acc, deltas[k]), current_hash,
                  1, Len(deltas) + 1),
        LAMBDA h1 :
    Let(HashCastle(e, h1, old_castle_status, WHITE_KING, 0), LAMBDA h2 :
    Let(HashCastle(e, h2, old_castle_status, WHITE_QUEEN, 1), LAMBDA h3 :
    Let(HashCastle(e, h3, old_castle_status, BLACK_KING, 2), LAMBDA h4 :
    Let(HashCastle(e, h4, old_castle_status, BLACK_QUEEN, 3), LAMBDA h5 :
    Let(Xor(h5, 65, 0), LAMBDA h6 :
    Let(IF old_en_passant # e.en_passant_square /\ old_en_passant # -1
        THEN Xor(h6, 66, old_en_passant) ELSE h6,
        LAMBDA h7 :
            IF old_en_passant # e.en_passant_square /\ e.en_passant_square # -1
            THEN Xor(h7, 66, e.en_passant_square) ELSE h7)))))))

\* `for i in 1..self.piece_locations.len()`, the 14 lists written out
piece_count(e) ==
    LET n(i) == Len(e.piece_locations[i])
    IN  n(1) + n(2) + n(3) + n(4) + n(5) + n(6) + n(7) + n(8) + n(9) + n(10)
        + n(11) + n(12) + n(13) + n(14)

\* the number of entries of the history equal to the current hash
Repetitions(e) ==
    Cardinality({i \in 1..Len(e.repetition_history) :
                    e.repetition_history[i] = e.board_hash})

check_for_draw(e) ==
    IF e.move_rep_count >= 50 THEN TRUE
    ELSE IF ~e.white_turn THEN FALSE
    ELSE IF piece_count(e) = 2 THEN TRUE
    ELSE Repetitions(e) >= 3

(***************************************************************************)
(* Evaluator.  defs.rs: the piece-square tables (entry i of a table is     *)
(* element i + 1 of the tuple).                                            *)
(***************************************************************************)
PAWN_SQUARE_TABLE ==
    <<   0,   0,   0,   0,   0,   0,   0,   0,
        50,  50,  50,  50,  50,  50,  50,  50,
        10,  10,  20,  30,  30,  20,  10,  10,
         5,   5,  10,  25,  25,  10,   5,   5,
         0,   0,   0,  20,  20,   0,   0,   0,
         5,  -5, -10,   0,   0, -10,  -5,   5,
         5,  10,  10, -20, -20,  10,  10,   5,
         0,   0,   0,   0,   0,   0,   0,   0 >>

KNIGHT_SQUARE_TABLE ==
    << -50, -40, -30, -30, -30, -30, -40, -50,
       -40, -20,   0,   0,   0,   0, -20, -40,
       -30,   0,  10,  15,  15,  10,   0, -30,
       -30,   5,  15,  20,  20,  15,   5, -30,
       -30,   0,  15,  20,  20,  15,   0, -30,
       -30,   5,  10,  15,  15,  10,   5, -30,
       -40, -20,   0,   5,   5,   0, -20, -40,
       -50, -40, -30, -30, -30, -30, -40, -50 >>

BISHOP_SQUARE_TABLE ==
    << -20, -10, -10, -10, -10, -10, -10, -20,
       -10,   0,   0,   0,   0,   0,   0, -10,
       -10,   0,   5,  10,  10,   5,   0, -10,
       -10,   5,   5,  10,  10,   5,   5, -10,
       -10,   0,  10,  10,  10,  10,   0, -10,
       -10,  10,  10,  10,  10,  10,  10, -10,
       -10,   5,   0,   0,   0,   0,   5, -10,
       -20, -10, -10, -10, -10, -10, -10, -20 >>

ROOK_SQUARE_TABLE ==
    <<   0,   0,   0,   0,   0,   0,   0,   0,
         5,  10,  10,  10,  10,  10,  10,   5,
        -5,   0,   0,   0,   0,   0,   0,  -5,
        -5,   0,   0,   0,   0,   0,   0,  -5,
        -5,   0,   0,   0,   0,   0,   0,  -5,
        -5,   0,   0,   0,   0,   0,   0,  -5,
        -5,   0,   0,   0,   0,   0,   0,  -5,
         0,   0,   0,   5,   5,   0,   0,   0 >>

QUEEN_SQUARE_TABLE ==
    << -20, -10, -10,  -5,  -5, -10, -10, -20,
       -10,   0,   0,   0,   0,   0,   0, -10,
       -10,   0,   5,   5,   5,   5,   0, -10,
        -5,   0,   5,   5,   5,   5,   0,  -5,
         0,   0,   5,   5,   5,   5,   0,  -5,
       -10,   5,   5,   5,   5,   5,   0, -10,
       -10,   0,   5,   0,   0,   0,   0, -10,
       -20, -10, -10,  -5,  -5, -10, -10, -20 >>

KING_MIDDLE_GAME_SQUARE_TABLE ==
    << -30, -40, -40, -50, -50, -40, -40, -30,
       -30, -40, -40, -50, -50, -40, -40, -30,
       -30, -40, -40, -50, -50, -40, -40, -30,
       -30, -40, -40, -50, -50, -40, -40, -30,
       -20, -30, -30, -40, -40, -30, -30, -20,
       -10, -20, -20, -20, -20, -20, -20, -10,
        20,  20,   0,   0,   0,   0,  20,  20,
        20,  30,  10,   0,   0,  10,  30,  20 >>

get_piece_value(piece) ==
    CASE piece = Queen_W \/ piece = Queen_B -> Value_QUEEN
      [] piece = Rook_W \/ piece = Rook_B -> Value_ROOK
      [] piece = Bishop_W \/ piece = Bishop_B -> Value_BISHOP
      [] piece = Knight_W \/ piece = Knight_B -> Value_KNIGHT
      [] piece = Pawn_W \/ piece = Pawn_B -> Value_PAWN
      [] OTHER -> 0

count_material(e, white) ==
    LET start_index == IF white THEN 8 ELSE 2
        v(i) == get_piece_value(from_num(i)) * Len(e.piece_locations[i])
    IN  v(start_index) + v(start_index + 1) + v(start_index + 2)
        + v(start_index + 3) + v(start_index + 4)

read_square_table_value(index, table, white) ==
    IF ~white THEN table[(63 - index) + 1] ELSE table[index + 1]

evaluate_square_table(e, piece, table, white) ==
    IF piece = Empty THEN 0
    ELSE FoldRange(LAMBDA acc, k :
                       acc + read_square_table_value(
                                 e.piece_locations[piece][k], table, white),
                   0, 1, Len(e.piece_locations[piece]) + 1)

\* (a / b) as i32 for an exact quotient: truncation towards zero
TruncDiv(a, b) == IF a >= 0 THEN a \div b ELSE -((-a) \div b)

\* The f32 weights are exact sixteenths: the material without pawns is a
\* multiple of 100 and the threshold is 1600, so material / threshold is
\* k/16 (or above 1) and 1.0 - min(1.0, k/16) is (16 - k)/16.  A weight is
\* carried as its numerator over 16.
endgame_material_threshold == (Value_ROOK * 2) + Value_BISHOP + Value_KNIGHT

EndGameWeight16(material_no_pawns) ==
    LET k == (material_no_pawns * 16) \div endgame_material_threshold
    IN  16 - (IF k > 16 THEN 16 ELSE k)

evaluate_square_tables(e, white, endgame_weight16) ==
    Let(IF white THEN <<Pawn_W, Rook_W, Knight_W, Bishop_W, Queen_W, King_W>>
        ELSE <<Pawn_B, Rook_B, Knight_B, Bishop_B, Queen_B, King_B>>,
        LAMBDA p :
            evaluate_square_table(e, p[1], PAWN_SQUARE_TABLE, white)
            + evaluate_square_table(e, p[2], ROOK_SQUARE_TABLE, white)
            + evaluate_square_table(e, p[3], KNIGHT_SQUARE_TABLE, white)
            + evaluate_square_table(e, p[4], BISHOP_SQUARE_TABLE, white)
            + evaluate_square_table(e, p[5], QUEEN_SQUARE_TABLE, white)
            + TruncDiv(evaluate_square_table(e, p[6],
                                             KING_MIDDLE_GAME_SQUARE_TABLE,
                                             white)
                       * (16 - endgame_weight16), 16))

Abs(n) == IF n < 0 THEN -n ELSE n

evaluate_end_game_position(endgame_weight16, op_king_x, op_king_y, distance) ==
    LET dist_to_center == Abs(op_king_x - 4) + Abs(op_king_y - 4)
        score == dist_to_center + (14 - distance)
    IN  TruncDiv(score * 20 * endgame_weight16, 16)

\* evaluate; the caller has checked that both kings are listed
evaluate(e) ==
    Let(count_material(e, TRUE), LAMBDA white_material :
    Let(count_material(e, FALSE), LAMBDA black_material :
    Let(EndGameWeight16(white_material - Len(e.piece_locations[Pawn_W])
                                         * get_piece_value(Pawn_W)),
        LAMBDA white_end_game_weight :
    Let(EndGameWeight16(black_material - Len(e.piece_locations[Pawn_B])
                                         * get_piece_value(Pawn_B)),
        LAMBDA black_end_game_weight :
    Let(<<ColOf(e.piece_locations[King_W][1]),
          RowOf(e.piece_locations[King_W][1])>>, LAMBDA white_king :
    Let(<<ColOf(e.piece_locations[King_B][1]),
          RowOf(e.piece_locations[King_B][1])>>, LAMBDA black_king :
    Let(Abs(white_king[1] - black_king[1]) + Abs(white_king[2] - black_king[2]),
        LAMBDA distance_between :
    Let((white_material
         + evaluate_square_tables(e, TRUE, white_end_game_weight)
         + evaluate_end_game_position(white_end_game_weight, black_king[1],
                                      black_king[2], distance_between))
        - (black_material
           + evaluate_square_tables(e, FALSE, white_end_game_weight)
           + evaluate_end_game_position(black_end_game_weight, white_king[1],
                                        white_king[2], distance_between)),
        LAMBDA evaluation :
            IF e.white_turn THEN evaluation ELSE -evaluation))))))))

(***************************************************************************)
(* Search.  A search threads a record s: the engine s.e, the clock         *)
(* (s.iter, s.clock: the iteration of the driver and the number of now()   *)
(* readings taken in it), the instant the budget runs out (s.cut), and two *)
(* observations that do not influence the search: s.synced (at every node  *)
(* entered so far board_hash was hash_board()), s.found (the move the      *)
(* root assigned to best_move_this_iteration, if it assigned one), s.hits  *)
(* (the probes of saved_evaluations that returned the saved value, each    *)
(* with the remaining depth and the window of its node), s.taken (the      *)
(* moves quiescence_search recursed on) and s.negated (the operands of the *)
(* negations: the bounds handed down and the values handed back).          *)
(***************************************************************************)
SavedEvalType == [Exact |-> 0, Alpha |-> 1, Beta |-> 2]

\* -1 * x and -x on i32, wrapping as the release build does
WNeg(x) == IF x = I32_MIN THEN I32_MIN ELSE -x

Max(a, b) == IF a >= b THEN a ELSE b
Min(a, b) == IF a <= b THEN a ELSE b

\* now("") - self.search_start_time >= self.search_max_time, for the
\* reading number k of iteration s.iter; the budget runs out at reading
\* s.cut.at of iteration s.cut.iter (at = 0: at the driver's own reading
\* after that iteration) and stays run out
OverBudget(s, k) ==
    \/ s.iter > s.cut.iter
    \/ s.iter = s.cut.iter /\ s.cut.at > 0 /\ k >= s.cut.at

NewSearch(e, cut) ==
    [e |-> e, iter |-> 1, clock |-> 0, cut |-> cut, synced |-> TRUE,
     found |-> << >>, hits |-> {}, taken |-> {}, negated |-> {}]

Observe(s) ==
    [s EXCEPT !.synced = @ /\ (s.e.board_hash = hash_board(s.e))]

Panic(s) == [s EXCEPT !.e.panicked = TRUE]

\* HashMap::insert
Insert(map, key, value) == (key :> value) @@ map

EvaluationData(depth, best, saved_type, eval) ==
    [total_moves |-> 0, depth |-> depth, best_move |-> best,
     saved_type |-> saved_type, eval |-> eval]

MoveScore(e, mov, attacked_squares) ==
    LET moving_piece == e.board[mov.from]
        capturing_piece == e.board[mov.to]
        promoting == from_num(mov.data)
    IN  (IF capturing_piece # Empty
         THEN 10 * get_piece_value(capturing_piece) - get_piece_value(moving_piece)
         ELSE 0)
        - (IF Contains(attacked_squares, mov.to)
           THEN get_piece_value(moving_piece) ELSE 0)
        + (IF moving_piece = Pawn_W \/ moving_piece = Pawn_B
           THEN get_piece_value(promoting) ELSE 0)

\* the inner loop of predict_and_order_moves, shifting entry i past the
\* entries with the same score too
OrderInsertPastEqual(acc, i, cur) ==
    Let({j \in 1..(i - 1) :
            /\ ~(cur.score >= acc[j].score)
            /\ \A k \in (j + 1)..(i - 1) : cur.score >= acc[k].score},
        LAMBDA stop :
    Let(IF stop = {} THEN 0 ELSE CHOOSE j \in stop : TRUE, LAMBDA at :
        [k \in 1..Len(acc) |->
            IF k <= at THEN acc[k]
            ELSE IF k = at + 1 THEN cur
            ELSE IF k <= i THEN acc[k - 1]
            ELSE acc[k]]))

\* the inner loop of predict_and_order_moves: entry i, scored, is shifted
\* left past the entries with a smaller score
OrderInsert(acc, i, cur) ==
    Let({j \in 1..(i - 1) :
            /\ ~(cur.score > acc[j].score)
            /\ \A k \in (j + 1)..(i - 1) : cur.score > acc[k].score},
        LAMBDA stop :
    Let(IF stop = {} THEN 0 ELSE CHOOSE j \in stop : TRUE, LAMBDA at :
        [k \in 1..Len(acc) |->
            IF k <= at THEN acc[k]
            ELSE IF k = at + 1 THEN cur
            ELSE IF k <= i THEN acc[k - 1]
            ELSE acc[k]]))

predict_and_order_moves(e, moves, attacked_squares) ==
    FoldRange(LAMBDA acc, i :
                  OrderInsert(acc, i,
                              [acc[i] EXCEPT !.score =
                                  MoveScore(e, acc[i], attacked_squares)]),
              moves, 1, Len(moves) + 1)

\* the move made inside a search: update_castle_status (when the search
\* tracks it), force_make_move without finish, the deltas swapped out, the
\* turn flipped
SearchMake(e, mov, data, castle) ==
    Let(force_make_move(IF castle
                        THEN update_castle_status(e, mov.from, mov.to).e
                        ELSE e,
                        mov.from, mov.to, data, FALSE),
        LAMBDA e1 :
            [e |-> [e1 EXCEPT !.board_deltas = << >>,
                              !.white_turn = ~e1.white_turn],
             stored_deltas |-> e1.board_deltas])

\* the start of a node shared by find_best_move and quiescence_search: the
\* pins are cleared, the attacked squares collected, the moves generated
\* and ordered: [moves, attacked, pins, panic]
SearchMoves(e, captures_only) ==
    Let(get_attacked_squares(e.board, e.en_passant_square, e.piece_locations,
                             e.white_turn, -1, TRUE),
        LAMBDA att :
            IF att.panic
            THEN [moves |-> << >>, attacked |-> att.arr, pins |-> att.pins,
                  panic |-> TRUE]
            ELSE
            Let(get_all_valid_moves([e EXCEPT !.pinned_pieces = att.pins],
                                    captures_only, att.arr),
                LAMBDA gen :
                    IF gen.panic THEN gen
                    ELSE [gen EXCEPT !.moves =
                              predict_and_order_moves(e, gen.moves,
                                                      gen.attacked)]))

\* the number of occupied squares
Occupied(b) == Cardinality({sq \in Squares : b[sq] # Empty})

\* what quiescence_search is about to recurse on: the piece that stood on
\* the destination, and the occupied squares before and after the move
Taken(e, made, mov) ==
    [target |-> e.board[mov.to], before |-> Occupied(e.board),
     after |-> Occupied(made.board)]

RECURSIVE quiescence_search(_, _, _)
quiescence_search(s, alpha, beta) ==
    IF s.e.panicked THEN [s |-> s, ret |-> 0]
    ELSE IF KingMissing(s.e, TRUE) \/ KingMissing(s.e, FALSE)
    THEN [s |-> Panic(s), ret |-> 0]
    ELSE
    Let(evaluate(s.e), LAMBDA evaluation :
        IF evaluation >= beta THEN [s |-> s, ret |-> beta]
        ELSE
    Let(SearchMoves(s.e, TRUE), LAMBDA gen :
        IF gen.panic THEN [s |-> Panic(s), ret |-> 0]
        ELSE
    LET starting_en_passant == s.e.en_passant_square
    IN
    Let(FoldRange(
            LAMBDA acc, k :
                IF acc.done \/ acc.s.e.panicked THEN acc
                ELSE
                Let(SearchMake(acc.s.e, gen.moves[k],
                               from_num(gen.moves[k].data), FALSE),
                    LAMBDA made :
                Let(quiescence_search([acc.s EXCEPT
                                          !.e = made.e,
                                          !.taken = @ \cup
                                              {Taken(acc.s.e, made.e,
                                                     gen.moves[k])},
                                          !.negated = @ \cup
                                              {beta, acc.alpha}],
                                      WNeg(beta), WNeg(acc.alpha)),
                    LAMBDA child :
                    IF child.s.e.panicked
                    THEN [acc EXCEPT !.s = child.s, !.done = TRUE]
                    ELSE
                Let([child.s EXCEPT
                        !.e = [unmake_move(child.s.e, made.stored_deltas)
                               EXCEPT !.en_passant_square =
                                          starting_en_passant],
                        !.negated = @ \cup {child.ret}],
                    LAMBDA back :
                    IF WNeg(child.ret) >= beta
                    THEN [s |-> back, alpha |-> acc.alpha, done |-> TRUE,
                          ret |-> beta]
                    ELSE [s |-> back,
                          alpha |-> Max(WNeg(child.ret), acc.alpha),
                          done |-> FALSE, ret |-> 0]))),
            [s |-> [s EXCEPT !.e.pinned_pieces = gen.pins],
             alpha |-> Max(evaluation, alpha), done |-> FALSE, ret |-> 0],
            1, Len(gen.moves) + 1),
        LAMBDA loop :
            IF loop.done THEN [s |-> loop.s, ret |-> loop.ret]
            ELSE [s |-> loop.s, ret |-> loop.alpha])))

\* SavedHit without the test of the stored depth
SavedHitAnyDepth(e, depth, alpha, beta) ==
    /\ e.board_hash \in DOMAIN e.saved_evaluations
    /\ Let(e.saved_evaluations[e.board_hash], LAMBDA saved_eval :
           \/ saved_eval.saved_type = SavedEvalType.Exact
           \/ saved_eval.saved_type = SavedEvalType.Alpha
              /\ saved_eval.eval <= alpha
           \/ saved_eval.saved_type = SavedEvalType.Beta
              /\ saved_eval.eval >= beta)

\* the transposition-table probe of find_best_move: should_return
SavedHit(e, depth, alpha, beta) ==
    /\ e.board_hash \in DOMAIN e.saved_evaluations
    /\ Let(e.saved_evaluations[e.board_hash], LAMBDA saved_eval :
           /\ saved_eval.depth >= depth
           /\ \/ saved_eval.saved_type = SavedEvalType.Exact
              \/ saved_eval.saved_type = SavedEvalType.Alpha
                 /\ saved_eval.eval <= alpha
              \/ saved_eval.saved_type = SavedEvalType.Beta
                 /\ saved_eval.eval >= beta)

\* self.best_move_this_iteration = mov; .score = score (at the root only)
SetRootMove(s, offset, mov, score) ==
    IF offset # 0 THEN s
    ELSE LET m == [mov EXCEPT !.score = score]
         IN  [s EXCEPT !.e.best_move_this_iteration = m, !.found = <<m>>]

\* self.saved_evaluations.insert(self.board_hash, EvaluationData {..})
SaveEvaluation(s, depth, best, saved_type, eval) ==
    [s EXCEPT !.e.saved_evaluations =
        Insert(@, s.e.board_hash, EvaluationData(depth, best, saved_type, eval))]

\* alpha = max(alpha, i32::MIN + offset + 1), with no mate score in the
\* window
ClampAlphaLoose(alpha, offset) == Max(alpha, I32_MIN + offset)

\* alpha = max(alpha, i32::MIN + offset + 1)
ClampAlpha(alpha, offset) == Max(alpha, I32_MIN + offset + 1)

\* beta = min(beta, i32::MAX - offset - 1)
ClampBeta(beta, offset) == Min(beta, I32_MAX - offset - 1)

RECURSIVE find_best_move(_, _, _, _, _, _)
find_best_move(s_in, can_cancel, depth, offset, alpha_in, beta_in) ==
    IF s_in.e.panicked THEN [s |-> s_in, ret |-> 0]
    ELSE
    Let(IF can_cancel THEN [Observe(s_in) EXCEPT !.clock = @ + 1]
        ELSE Observe(s_in), LAMBDA s :
        IF can_cancel /\ OverBudget(s, s.clock) THEN [s |-> s, ret |-> 0]
        ELSE IF depth <= 0 THEN quiescence_search(s, alpha_in, beta_in)
        ELSE IF offset > 0 /\ Contains(s.e.repetition_history, s.e.board_hash)
        THEN [s |-> s, ret |-> 0]
        ELSE
    Let2(ClampAlpha(alpha_in, offset), ClampBeta(beta_in, offset),
         LAMBDA alpha, beta :
        IF alpha >= beta THEN [s |-> s, ret |-> alpha]
        ELSE IF SavedHit(s.e, depth, alpha, beta)
        THEN Let(s.e.saved_evaluations[s.e.board_hash], LAMBDA saved_eval :
                 [s |-> [SetRootMove(s, offset, saved_eval.best_move,
                                     saved_eval.eval)
                         EXCEPT !.hits = @ \cup {[depth |-> depth,
                                                  alpha |-> alpha,
                                                  beta |-> beta,
                                                  saved |-> saved_eval]}],
                  ret |-> saved_eval.eval])
        ELSE
    Let(SearchMoves(s.e, FALSE), LAMBDA gen :
        IF gen.panic THEN [s |-> Panic(s), ret |-> 0]
        ELSE IF Len(gen.moves) = 0
        THEN [s |-> [s EXCEPT !.e.pinned_pieces = gen.pins],
              ret |-> IF is_in_check_attacked_squares(s.e, s.e.white_turn,
                                                      gen.attacked)
                      THEN I32_MIN + offset ELSE 0]
        ELSE
    LET starting == [hash |-> s.e.board_hash,
                     en_passant |-> s.e.en_passant_square,
                     castle_status |-> s.e.castle_status]
    IN
    Let(FoldRange(
            LAMBDA acc, k :
                IF acc.done \/ acc.s.e.panicked THEN acc
                ELSE
                Let(SearchMake(acc.s.e, gen.moves[k],
                               from_num(gen.moves[k].data), TRUE),
                    LAMBDA made :
                Let(find_best_move(
                        [acc.s EXCEPT
                            !.e = [made.e EXCEPT !.board_hash =
                                      update_hash(made.e, made.stored_deltas,
                                                  starting.hash,
                                                  starting.en_passant,
                                                  starting.castle_status)],
                            !.negated = @ \cup {beta, acc.alpha}],
                        can_cancel, depth - 1, offset + 1, WNeg(beta),
                        WNeg(acc.alpha)),
                    LAMBDA child :
                    IF child.s.e.panicked
                    THEN [acc EXCEPT !.s = child.s, !.done = TRUE]
                    ELSE
                Let([child.s EXCEPT
                        !.e = [unmake_move(child.s.e, made.stored_deltas)
                               EXCEPT !.board_hash = starting.hash,
                                      !.en_passant_square =
                                          starting.en_passant,
                                      !.castle_status =
                                          starting.castle_status],
                        !.negated = @ \cup {child.ret}],
                    LAMBDA back :
                    IF WNeg(child.ret) >= beta
                    THEN [acc EXCEPT
                             !.s = SaveEvaluation(back, depth, acc.best,
                                                  SavedEvalType.Beta, beta),
                             !.done = TRUE, !.ret = beta]
                    ELSE IF WNeg(child.ret) > acc.alpha
                    THEN [acc EXCEPT
                             !.s = SetRootMove(back, offset, gen.moves[k],
                                               WNeg(child.ret)),
                             !.alpha = WNeg(child.ret),
                             !.best = gen.moves[k],
                             !.saving_type = SavedEvalType.Exact]
                    ELSE [acc EXCEPT !.s = back]))),
            [s |-> [s EXCEPT !.e.pinned_pieces = gen.pins], alpha |-> alpha,
             best |-> DefaultMove, saving_type |-> SavedEvalType.Alpha,
             done |-> FALSE, ret |-> 0],
            1, Len(gen.moves) + 1),
        LAMBDA loop :
            IF loop.done \/ loop.s.e.panicked
            THEN [s |-> loop.s, ret |-> loop.ret]
            ELSE [s |-> SaveEvaluation(loop.s, depth, loop.best,
                                       loop.saving_type, loop.alpha),
                  ret |-> loop.alpha]))))

max_depth == 30
MateScore == 99999999

\* the driver's own reading after iteration s.iter
DriverOverBudget(s) == s.iter >= s.cut.iter

\* one pass of `for i in 1..=max_depth`: acc is [s, last_completed_depth,
\* done, iterations, posts]; posts lists the post_eval_message calls
Iteration(acc, i) ==
    Let(find_best_move([acc.s EXCEPT !.iter = i, !.clock = 0,
                                     !.found = << >>],
                       TRUE, i, 0, I32_MIN, I32_MAX),
        LAMBDA r :
            IF r.s.e.panicked
            THEN [acc EXCEPT !.s = r.s, !.done = TRUE]
            ELSE IF DriverOverBudget(r.s)
            THEN [acc EXCEPT
                     !.s = r.s, !.done = TRUE,
                     !.iterations =
                         Append(@, [depth |-> i, completed |-> FALSE,
                                    found |-> r.s.found, ret |-> r.ret,
                                    score |-> r.s.e.best_move.score])]
            ELSE [s |-> [r.s EXCEPT !.e.best_move =
                                      r.s.e.best_move_this_iteration],
                  last_completed_depth |-> i,
                  done |-> r.s.e.best_move_this_iteration.score >= MateScore,
                  iterations |->
                      Append(acc.iterations,
                             [depth |-> i, completed |-> TRUE,
                              found |-> r.s.found, ret |-> r.ret,
                              score |-> r.s.e.best_move_this_iteration
                                           .score]),
                  posts |->
                      Append(acc.posts,
                             [depth |-> i,
                              eval |-> IF r.s.e.white_turn
                                       THEN r.s.e.best_move_this_iteration
                                               .score
                                       ELSE WNeg(r.s.e
                                                  .best_move_this_iteration
                                                  .score)])])

\* the passes from i on, until a break or max_depth
RECURSIVE Deepen(_, _)
Deepen(acc, i) ==
    IF i > max_depth \/ acc.done \/ acc.s.e.panicked THEN acc
    ELSE Deepen(Iteration(acc, i), i + 1)

\* find_best_move_iterative: [e, iterations, posts, synced, hits, taken,
\* negated]; iterations
\* lists, for every iteration run, its depth, whether the driver accepted
\* it, the move its root found, the value its root returned and the score
\* of best_move, which the driver tests for mate
find_best_move_iterative(e, cut) ==
    Let(Deepen([s |-> NewSearch(e, cut), last_completed_depth |-> 0,
                done |-> FALSE, iterations |-> << >>, posts |-> << >>], 1),
        LAMBDA loop :
            [e |-> IF loop.s.e.panicked THEN loop.s.e
                   ELSE [loop.s.e EXCEPT !.depth_searched_last_turn =
                                            loop.last_completed_depth],
             iterations |-> loop.iterations, posts |-> loop.posts,
             synced |-> loop.s.synced,
             hits |-> loop.s.hits, taken |-> loop.s.taken,
             negated |-> loop.s.negated])

\* the tail shared by eval_bot_move and eval_bot_move_iterative: the move
\* in best_move is applied
ApplyBestMove(e) ==
    Let(update_castle_status(e, e.best_move.from, e.best_move.to), LAMBDA uc :
        force_make_move([uc.e EXCEPT !.castled_this_turn = uc.ret,
                                     !.piece_captured_this_turn =
                                         uc.e.board[e.best_move.to] # Empty],
                        e.best_move.from, e.best_move.to,
                        from_num(e.best_move.data), TRUE))

NoCut == [iter |-> 0, at |-> 0]

\* eval_bot_move: [e, ret, synced, found, searched, taken, negated];
\* searched is the engine as find_best_move left it
eval_bot_move(e, depth) ==
    IF check_for_draw(e)
    THEN [e |-> e, ret |-> FALSE, synced |-> TRUE, found |-> << >>,
          searched |-> e, taken |-> {}, negated |-> {}]
    ELSE
    Let(find_best_move(NewSearch(e, NoCut), FALSE, depth, 0, I32_MIN, I32_MAX),
        LAMBDA r :
            IF \/ r.s.e.panicked
               \/ /\ r.s.e.best_move.to = r.s.e.best_move_this_iteration.to
                  /\ r.s.e.best_move.from = r.s.e.best_move_this_iteration.from
            THEN [e |-> r.s.e, ret |-> FALSE, synced |-> r.s.synced,
                  found |-> r.s.found, searched |-> r.s.e,
                  taken |-> r.s.taken, negated |-> r.s.negated]
            ELSE [e |-> ApplyBestMove(
                            [r.s.e EXCEPT
                                !.best_move = r.s.e.best_move_this_iteration,
                                !.depth_searched_last_turn = depth]),
                  ret |-> TRUE, synced |-> r.s.synced, found |-> r.s.found,
                  searched |-> r.s.e, taken |-> r.s.taken,
                  negated |-> r.s.negated])

\* eval_bot_move_iterative: [e, ret, synced, iterations, posts, searched,
\* hits, taken, negated]
eval_bot_move_iterative(e, cut) ==
    IF check_for_draw(e)
    THEN [e |-> e, ret |-> FALSE, synced |-> TRUE, iterations |-> << >>,
          posts |-> << >>,
          searched |-> e, hits |-> {}, taken |-> {}, negated |-> {}]
    ELSE
    Let(find_best_move_iterative(e, cut), LAMBDA r :
        IF \/ r.e.panicked
           \/ /\ r.e.best_move.to = e.best_move.to
              /\ r.e.best_move.from = e.best_move.from
        THEN [e |-> r.e, ret |-> FALSE, synced |-> r.synced,
              iterations |-> r.iterations, posts |-> r.posts,
              searched |-> r.e, hits |-> r.hits,
              taken |-> r.taken, negated |-> r.negated]
        ELSE [e |-> ApplyBestMove(r.e), ret |-> TRUE, synced |-> r.synced,
              iterations |-> r.iterations, posts |-> r.posts,
              searched |-> r.e, hits |-> r.hits, taken |-> r.taken, negated |-> r.negated])

\* calculate_all_possible_moves (perft): [s, ret]
RECURSIVE calculate_all_possible_moves(_, _)
calculate_all_possible_moves(s_in, depth) ==
    IF s_in.e.panicked THEN [s |-> s_in, ret |-> 0]
    ELSE IF depth <= 0 THEN [s |-> Observe(s_in), ret |-> 1]
    ELSE
    Let(get_all_valid_moves(s_in.e, FALSE, << >>), LAMBDA gen :
        IF gen.panic THEN [s |-> Panic(s_in), ret |-> 0]
        ELSE
    Let([hash |-> s_in.e.board_hash, en_passant |-> s_in.e.en_passant_square,
         castle_status |-> s_in.e.castle_status], LAMBDA starting :
    Let(FoldRange(
            LAMBDA acc, k :
                IF acc.s.e.panicked THEN acc
                ELSE
                Let(SearchMake(acc.s.e, gen.moves[k], from_num(k - 1), TRUE),
                    LAMBDA made :
                Let(calculate_all_possible_moves(
                        [acc.s EXCEPT
                            !.e = [made.e EXCEPT !.board_hash =
                                      update_hash(made.e, made.stored_deltas,
                                                  starting.hash,
                                                  starting.en_passant,
                                                  starting.castle_status)]],
                        depth - 1),
                    LAMBDA child :
                        IF child.s.e.panicked THEN [acc EXCEPT !.s = child.s]
                        ELSE [s |-> [child.s EXCEPT !.e =
                                  [unmake_move(child.s.e, made.stored_deltas)
                                   EXCEPT !.board_hash = starting.hash,
                                          !.en_passant_square =
                                              starting.en_passant,
                                          !.castle_status =
                                              starting.castle_status]],
                              total_moves |-> acc.total_moves + child.ret])),
            [s |-> [Observe(s_in) EXCEPT !.e.pinned_pieces = gen.pins],
             total_moves |-> 0],
            1, Len(gen.moves) + 1),
        LAMBDA loop : [s |-> loop.s, ret |-> loop.total_moves])))

(***************************************************************************)
(* FEN.  A &str is the sequence of its characters.                         *)
(***************************************************************************)
\* str::split(sep).collect(): the pieces between the separators
Split(str, sep) ==
    LET at == SelectSeq([i \in 1..Len(str) |-> i], LAMBDA i : str[i] = sep)
        cut == <<0>> \o at \o <<Len(str) + 1>>
    IN  [k \in 1..(Len(at) + 1) |-> SubSeq(str, cut[k] + 1, cut[k + 1] - 1)]

\* the value of one decimal digit
DigitValue ==
    ( "0" :> 0 @@ "1" :> 1 @@ "2" :> 2 @@ "3" :> 3 @@ "4" :> 4 @@
      "5" :> 5 @@ "6" :> 6 @@ "7" :> 7 @@ "8" :> 8 @@ "9" :> 9 )

IsDigit(ch) == ch \in DOMAIN DigitValue

\* the code of a file letter (file as usize)
FileCode ==
    ( "a" :> 97 @@ "b" :> 98 @@ "c" :> 99 @@ "d" :> 100 @@
      "e" :> 101 @@ "f" :> 102 @@ "g" :> 103 @@ "h" :> 104 )

\* str::parse::<i32>(): [ok, val]; a sign, then one digit or more
ParseI32(str) ==
    Let(Len(str) >= 1 /\ (str[1] = "-" \/ str[1] = "+"), LAMBDA signed :
    Let(IF signed THEN Tail(str) ELSE str, LAMBDA digits :
        IF Len(digits) = 0 \/ (\E k \in 1..Len(digits) : ~IsDigit(digits[k]))
        THEN [ok |-> FALSE, val |-> 0]
        ELSE
    Let(FoldRange(LAMBDA acc, k : acc * 10 + DigitValue[digits[k]], 0, 1,
                  Len(digits) + 1), LAMBDA abs :
    Let(IF signed /\ str[1] = "-" THEN -abs ELSE abs, LAMBDA val :
        IF val < I32_MIN \/ val > I32_MAX
        THEN [ok |-> FALSE, val |-> 0]
        ELSE [ok |-> TRUE, val |-> val]))))

notation_to_index(rank, file) ==
    LET y == 8 - (IF IsDigit(rank) THEN DigitValue[rank] ELSE 0)
        x == FileCode[file] - 97
    IN  (y * 8) + x

\* the body of the two nested loops of parse_fen for one character of the
\* placement field: acc is [e, board_index]
ParsePlacementChar(acc, t) ==
    IF acc.e.panicked \/ t = "/" THEN acc
    ELSE IF IsDigit(t)
    THEN [acc EXCEPT !.board_index = @ + DigitValue[t]]
    ELSE Let(IF t \in DOMAIN acc.e.fen_to_piece_map
             THEN acc.e.fen_to_piece_map
             ELSE (t :> Empty) @@ acc.e.fen_to_piece_map,
             LAMBDA map :
                 IF acc.board_index > 63
                 THEN [acc EXCEPT !.e.fen_to_piece_map = map,
                                  !.e.panicked = TRUE]
                 ELSE [e |-> push_location(
                                [acc.e EXCEPT !.fen_to_piece_map = map,
                                              !.board[acc.board_index] = map[t]],
                                map[t], acc.board_index),
                       board_index |-> acc.board_index + 1])

\* the castle flags of parse_fen
ParseCastle(field) ==
    LET add(st, ch, flag) == IF Contains(field, ch) THEN SetFlag(st, flag) ELSE st
    IN  add(add(add(add(UNSET, "K", WHITE_KING), "Q", WHITE_QUEEN),
                "k", BLACK_KING), "q", BLACK_QUEEN)

\* parse_fen from the move counts on
ParseTail(e, fields) ==
    Let(ParseI32(fields[5]), LAMBDA half :
        IF ~half.ok THEN [e EXCEPT !.panicked = TRUE]
        ELSE
    Let(ParseI32(fields[6]), LAMBDA full :
        IF ~full.ok
        THEN [e EXCEPT !.move_rep_count = half.val, !.panicked = TRUE]
        ELSE IF e.en_passant_square \notin -1..63
        THEN [e EXCEPT !.move_rep_count = half.val,
                       !.move_count = full.val * 2 - 2, !.panicked = TRUE]
        ELSE
    Let([e EXCEPT !.move_rep_count = half.val,
                  !.move_count = full.val * 2 - 2], LAMBDA e2 :
    Let(hash_board(e2), LAMBDA hash :
    Let([e2 EXCEPT !.board_hash = hash, !.repetition_history = <<hash>>],
        LAMBDA e4 :
    Let(get_all_valid_moves(e4, FALSE, << >>), LAMBDA gen :
        IF gen.panic THEN [e4 EXCEPT !.panicked = TRUE]
        ELSE [e4 EXCEPT !.pinned_pieces = gen.pins,
                        !.all_valid_moves = gen.moves]))))))

\* parse_fen with the field count tested by `< 6`
parse_fen_at_least_six(e, fen) ==
    Let(Split(fen, " "), LAMBDA fields :
        IF Len(fields) < 6 THEN e
        ELSE ParseTail([e EXCEPT !.white_turn = (fields[2] = <<"w">>),
                                 !.castle_status = ParseCastle(fields[3])],
                       fields))

parse_fen(e, fen) ==
    Let(Split(fen, " "), LAMBDA fields :
        IF Len(fields) # 6 THEN e
        ELSE
    Let(FoldRange(LAMBDA acc, k : ParsePlacementChar(acc, fields[1][k]),
                  [e |-> e, board_index |-> 0], 1, Len(fields[1]) + 1).e,
        LAMBDA placed :
        IF placed.panicked THEN placed
        ELSE
    Let([placed EXCEPT !.white_turn = (fields[2] = <<"w">>),
                       !.castle_status = ParseCastle(fields[3])], LAMBDA e1 :
        IF fields[4] = <<"-">> THEN ParseTail(e1, fields)
        ELSE IF Len(fields[4]) < 2 \/ fields[4][1] \notin DOMAIN FileCode
        THEN [e1 EXCEPT !.panicked = TRUE]
        ELSE ParseTail([e1 EXCEPT !.en_passant_square =
                           notation_to_index(fields[4][2], fields[4][1])],
                       fields))))

(***************************************************************************)
(* The strings handed to parse_fen.                                        *)
(***************************************************************************)
\* "4k3/8/8/pP6/8/8/8/4K3 w - a6 0 1": spec.md scenario 3: b5xa6 en passant
FenEnPassant ==
    << "4", "k", "3", "/", "8", "/", "8", "/", "p", "P", "6", "/", "8",
    "/", "8", "/", "8", "/", "4", "K", "3", " ", "w", " ", "-", " ", "a",
    "6", " ", "0", " ", "1" >>

\* "8/8/8/KPp4r/8/8/8/4k3 w - c6 0 1": an en passant capture that clears the king's rank
FenPassantRank ==
    << "8", "/", "8", "/", "8", "/", "K", "P", "p", "4", "r", "/", "8",
    "/", "8", "/", "8", "/", "4", "k", "3", " ", "w", " ", "-", " ", "c",
    "6", " ", "0", " ", "1" >>

\* "4k3/8/8/3pP3/4K3/8/8/8 w - d6 0 1": the pawn that just moved two squares gives check
FenPassantCheck ==
    << "4", "k", "3", "/", "8", "/", "8", "/", "3", "p", "P", "3", "/",
    "4", "K", "3", "/", "8", "/", "8", "/", "8", " ", "w", " ", "-", " ",
    "d", "6", " ", "0", " ", "1" >>

\* "2n1k3/1P6/8/8/8/8/8/4K3 w - - 0 1": a pawn one step from promotion, en passant field -
FenPromotion ==
    << "2", "n", "1", "k", "3", "/", "1", "P", "6", "/", "8", "/", "8",
    "/", "8", "/", "8", "/", "8", "/", "4", "K", "3", " ", "w", " ", "-",
    " ", "-", " ", "0", " ", "1" >>

\* "4k3/8/8/8/8/8/4r3/4K2R w K - 0 1": spec.md scenario 2: castling through check
FenCastle ==
    << "4", "k", "3", "/", "8", "/", "8", "/", "8", "/", "8", "/", "8",
    "/", "4", "r", "3", "/", "4", "K", "2", "R", " ", "w", " ", "K", " ",
    "-", " ", "0", " ", "1" >>

\* "r3k3/8/8/8/8/8/8/4K2R b Kq - 4 9": both sides may castle
FenCastleFree ==
    << "r", "3", "k", "3", "/", "8", "/", "8", "/", "8", "/", "8", "/",
    "8", "/", "8", "/", "4", "K", "2", "R", " ", "b", " ", "K", "q", " ",
    "-", " ", "4", " ", "9" >>

\* "4k3/8/8/8/1p6/8/P7/4K3 w - - 0 1": a double push next to an enemy pawn
FenDoublePush ==
    << "4", "k", "3", "/", "8", "/", "8", "/", "8", "/", "1", "p", "6",
    "/", "8", "/", "P", "7", "/", "4", "K", "3", " ", "w", " ", "-", " ",
    "-", " ", "0", " ", "1" >>

\* "4k3/8/8/8/8/8/8/4K3 w - - 0": five fields
FenFiveFields ==
    << "4", "k", "3", "/", "8", "/", "8", "/", "8", "/", "8", "/", "8",
    "/", "8", "/", "4", "K", "3", " ", "w", " ", "-", " ", "-", " ", "0"
    >>

\* "4k3/8/8/8/8/8/8/4K3 w - - 0 1 x": seven fields
FenSevenFields ==
    << "4", "k", "3", "/", "8", "/", "8", "/", "8", "/", "8", "/", "8",
    "/", "8", "/", "4", "K", "3", " ", "w", " ", "-", " ", "-", " ", "0",
    " ", "1", " ", "x" >>

\* "4k3/8/8/8/8/8/8/4X3 w - - 0 1": an unknown piece letter
FenBadLetter ==
    << "4", "k", "3", "/", "8", "/", "8", "/", "8", "/", "8", "/", "8",
    "/", "8", "/", "4", "X", "3", " ", "w", " ", "-", " ", "-", " ", "0",
    " ", "1" >>

\* "4k3/8/8/8/8/8/8/4K3 b - - x 1": a halfmove clock that is no number
FenBadClock ==
    << "4", "k", "3", "/", "8", "/", "8", "/", "8", "/", "8", "/", "8",
    "/", "8", "/", "4", "K", "3", " ", "b", " ", "-", " ", "-", " ", "x",
    " ", "1" >>

\* "7k/8/8/6Q1/8/8/8/4K3 w - - 0 1": g5-g6 leaves black without a move
FenStalemate ==
    << "7", "k", "/", "8", "/", "8", "/", "6", "Q", "1", "/", "8", "/",
    "8", "/", "8", "/", "4", "K", "3", " ", "w", " ", "-", " ", "-",
    " ", "0", " ", "1" >>

\* "4k3/8/8/8/8/8/8/4K3 w - - 0 1": two kings, a draw by material
FenBareKings ==
    << "4", "k", "3", "/", "8", "/", "8", "/", "8", "/", "8", "/", "8",
    "/", "8", "/", "4", "K", "3", " ", "w", " ", "-", " ", "-", " ",
    "0", " ", "1" >>

\* "4k3/8/8/8/8/8/8/R3K3 b - - 50 40": black to move, fifty moves without capture or pawn move
FenFiftyMoves ==
    << "4", "k", "3", "/", "8", "/", "8", "/", "8", "/", "8", "/", "8",
    "/", "8", "/", "R", "3", "K", "3", " ", "b", " ", "-", " ", "-",
    " ", "5", "0", " ", "4", "0" >>

WellFormedFens == { FenEnPassant, FenPassantRank, FenPassantCheck, FenPromotion,
                    FenCastle, FenCastleFree, FenDoublePush, FenStalemate,
                    FenBareKings, FenFiftyMoves }

WrongCountFens == { FenFiveFields, FenSevenFields }

MalformedFens == { FenBadLetter, FenBadClock }

FenInputs == WellFormedFens \cup WrongCountFens \cup MalformedFens

\* attempt_move with the test for membership in the list left out
AttemptWithoutList(e, from_index, to_index, gen) ==
    IF check_for_draw(e) THEN [e |-> e, ret |-> FALSE]
    ELSE IF from_index = to_index \/ e.board[from_index] = Empty
    THEN [e |-> e, ret |-> FALSE]
    ELSE IF (e.white_turn /\ e.board[from_index] < King_W)
            \/ (~e.white_turn /\ e.board[from_index] > Pawn_B)
    THEN [e |-> e, ret |-> FALSE]
    ELSE [e |-> force_make_move(
                    [e EXCEPT !.pinned_pieces = gen.pins,
                              !.piece_captured_this_turn =
                                  (e.board[to_index] # Empty)],
                    from_index, to_index,
                    IF e.white_turn THEN Queen_W ELSE Queen_B, TRUE),
          ret |-> TRUE]

(***************************************************************************)
(* Public entry points.                                                    *)
(***************************************************************************)
\* attempt_move after its call of get_all_valid_moves, whose result gen
\* does not depend on the two squares: [e, ret]
AttemptWith(e, from_index, to_index, gen) ==
    IF check_for_draw(e) THEN [e |-> e, ret |-> FALSE]
    ELSE IF from_index = to_index \/ e.board[from_index] = Empty
    THEN [e |-> e, ret |-> FALSE]
    ELSE IF (e.white_turn /\ e.board[from_index] < King_W)
            \/ (~e.white_turn /\ e.board[from_index] > Pawn_B)
    THEN [e |-> e, ret |-> FALSE]
    ELSE IF gen.panic THEN [e |-> [e EXCEPT !.panicked = TRUE], ret |-> FALSE]
    ELSE IF ~(\E k \in 1..Len(gen.moves) :
                gen.moves[k].from = from_index /\ gen.moves[k].to = to_index)
    THEN [e |-> [e EXCEPT !.pinned_pieces = gen.pins], ret |-> FALSE]
    ELSE
    Let(update_castle_status([e EXCEPT !.pinned_pieces = gen.pins],
                             from_index, to_index), LAMBDA castle :
        [e |-> force_make_move(
                   [castle.e EXCEPT
                       !.castled_this_turn = castle.ret,
                       !.piece_captured_this_turn =
                           (castle.e.board[to_index] # Empty)],
                   from_index, to_index,
                   IF castle.e.white_turn THEN Queen_W ELSE Queen_B, TRUE),
         ret |-> TRUE])

attempt_move(e, from_index, to_index) ==
    AttemptWith(e, from_index, to_index, get_all_valid_moves(e, FALSE, << >>))

(***************************************************************************)
(* The engine as a state machine: the host constructs it and then calls    *)
(* its public methods, one call per step.  last_call is the method called, *)
(* what it returned and what the search observed; loaded is the sequence   *)
(* of strings given to parse_fen, ops the number of moves applied and      *)
(* searches the number of calls of eval_bot_move and of                     *)
(* eval_bot_move_iterative, perfts that of calculate_all_possible_moves;   *)
(* rejected tells that one of these calls returned false.                  *)
(***************************************************************************)
Self ==
    [ fen_to_piece_map |-> fen_to_piece_map, board |-> board,
      board_hash |-> board_hash, white_turn |-> white_turn,
      castle_status |-> castle_status,
      en_passant_square |-> en_passant_square, move_count |-> move_count,
      move_rep_count |-> move_rep_count, board_deltas |-> board_deltas,
      piece_locations |-> piece_locations, pinned_pieces |-> pinned_pieces,
      repetition_history |-> repetition_history,
      saved_evaluations |-> saved_evaluations,
      castled_this_turn |-> castled_this_turn,
      piece_captured_this_turn |-> piece_captured_this_turn,
      in_check |-> in_check, all_valid_moves |-> all_valid_moves,
      best_move |-> best_move,
      best_move_this_iteration |-> best_move_this_iteration,
      depth_searched_last_turn |-> depth_searched_last_turn,
      panicked |-> panicked ]

Becomes(e) ==
    /\ fen_to_piece_map' = e.fen_to_piece_map
    /\ board' = e.board
    /\ board_hash' = e.board_hash
    /\ white_turn' = e.white_turn
    /\ castle_status' = e.castle_status
    /\ en_passant_square' = e.en_passant_square
    /\ move_count' = e.move_count
    /\ move_rep_count' = e.move_rep_count
    /\ board_deltas' = e.board_deltas
    /\ piece_locations' = e.piece_locations
    /\ pinned_pieces' = e.pinned_pieces
    /\ repetition_history' = e.repetition_history
    /\ saved_evaluations' = e.saved_evaluations
    /\ castled_this_turn' = e.castled_this_turn
    /\ piece_captured_this_turn' = e.piece_captured_this_turn
    /\ in_check' = e.in_check
    /\ all_valid_moves' = e.all_valid_moves
    /\ best_move' = e.best_move
    /\ best_move_this_iteration' = e.best_move_this_iteration
    /\ depth_searched_last_turn' = e.depth_searched_last_turn
    /\ panicked' = e.panicked

Init ==
    /\ fen_to_piece_map = EngineNew.fen_to_piece_map
    /\ board = EngineNew.board
    /\ board_hash = EngineNew.board_hash
    /\ white_turn = EngineNew.white_turn
    /\ castle_status = EngineNew.castle_status
    /\ en_passant_square = EngineNew.en_passant_square
    /\ move_count = EngineNew.move_count
    /\ move_rep_count = EngineNew.move_rep_count
    /\ board_deltas = EngineNew.board_deltas
    /\ piece_locations = EngineNew.piece_locations
    /\ pinned_pieces = EngineNew.pinned_pieces
    /\ repetition_history = EngineNew.repetition_history
    /\ saved_evaluations = EngineNew.saved_evaluations
    /\ castled_this_turn = EngineNew.castled_this_turn
    /\ piece_captured_this_turn = EngineNew.piece_captured_this_turn
    /\ in_check = EngineNew.in_check
    /\ all_valid_moves = EngineNew.all_valid_moves
    /\ best_move = EngineNew.best_move
    /\ best_move_this_iteration = EngineNew.best_move_this_iteration
    /\ depth_searched_last_turn = EngineNew.depth_searched_last_turn
    /\ panicked = EngineNew.panicked
    /\ last_call = [op |-> "new", ret |-> TRUE]
    /\ loaded = << >>
    /\ ops = 0
    /\ searches = 0
    /\ perfts = 0
    /\ rejected = FALSE

\* the fields that make up the position
Position6(e) ==
    << e.board, e.white_turn, e.board_hash, e.castle_status,
       e.en_passant_square, e.piece_locations >>

\* the budget runs out at reading `at` of iteration `iter`, or (at = 0) at
\* the driver's reading after it; the iteration after the deepest one
\* searched in full is always cut short
Cuts ==
    { c \in [iter : 1..(MaxDepth + 1), at : 0..MaxClock] :
        ~(c.iter = MaxDepth + 1 /\ c.at = 0) }

\* parse_fen(fen)
ParseFen ==
    /\ ~panicked
    /\ Len(loaded) < MaxLoads
    /\ ops = 0
    /\ searches = 0
    /\ perfts = 0
    /\ \E fen \in FenInputs :
        /\ Becomes(parse_fen(Self, fen))
        /\ loaded' = Append(loaded, fen)
    /\ last_call' = [op |-> "parse_fen", ret |-> TRUE]
    /\ UNCHANGED << ops, searches, perfts, rejected >>

\* the squares of the pairs tried besides the listed moves
ProbeSquares == {0, 4, 60}

\* the pairs the host tries: every move of the list, and the pairs of
\* ProbeSquares (from = to, an empty square, the wrong colour, a move not
\* in the list)
AttemptInputs(gen) ==
    {<<gen.moves[k].from, gen.moves[k].to>> : k \in 1..Len(gen.moves)}
    \cup (ProbeSquares \X ProbeSquares)

\* attempt_move(from_index, to_index)
AttemptMove ==
    /\ ~panicked
    /\ Len(loaded) >= 1
    /\ ops < MaxOps
    /\ \E gen \in {get_all_valid_moves(Self, FALSE, << >>)} :
       \E input \in AttemptInputs(gen) :
       \E r \in {AttemptWith(Self, input[1], input[2], gen)} :
            /\ Becomes(r.e)
            /\ last_call' = [op |-> "attempt_move", ret |-> r.ret,
                             applied |-> IF r.ret THEN input ELSE << >>]
            /\ ops' = IF r.ret THEN ops + 1 ELSE ops
            /\ rejected' = (rejected \/ ~r.ret)
    /\ UNCHANGED << loaded, searches, perfts >>

CanSearch ==
    /\ ~panicked
    /\ Len(loaded) = 1
    /\ searches + perfts < MaxSearches

\* eval_bot_move(depth)
EvalBotMove ==
    /\ CanSearch
    /\ \E depth \in 0..MaxDepth :
       \E r \in {eval_bot_move(Self, depth)} :
            /\ Becomes(r.e)
            /\ last_call' = [op |-> "eval_bot_move", ret |-> r.ret,
                             synced |-> r.synced,
                             restored |-> Position6(r.searched) = Position6(Self),
                             found |-> r.found, taken |-> r.taken,
                             negated |-> r.negated]
            /\ ops' = IF r.ret THEN ops + 1 ELSE ops
            /\ rejected' = (rejected \/ ~r.ret)
    /\ searches' = searches + 1
    /\ UNCHANGED << loaded, perfts >>

\* eval_bot_move_iterative(), the clock running out at cut
EvalBotMoveIterative ==
    /\ CanSearch
    /\ \E cut \in Cuts :
       \E r \in {eval_bot_move_iterative(Self, cut)} :
            /\ Becomes(r.e)
            /\ last_call' = [op |-> "eval_bot_move_iterative", ret |-> r.ret,
                             synced |-> r.synced,
                             restored |-> Position6(r.searched) = Position6(Self),
                             iterations |-> r.iterations, taken |-> r.taken,
                             negated |-> r.negated, posts |-> r.posts]
            /\ ops' = IF r.ret THEN ops + 1 ELSE ops
            /\ rejected' = (rejected \/ ~r.ret)
    /\ searches' = searches + 1
    /\ UNCHANGED << loaded, perfts >>

\* calculate_all_possible_moves(depth)
CalculateAllPossibleMoves ==
    /\ CanSearch
    /\ \E depth \in 0..MaxDepth :
       \E r \in {calculate_all_possible_moves(NewSearch(Self, NoCut), depth)} :
            /\ Becomes(r.s.e)
            /\ last_call' = [op |-> "calculate_all_possible_moves",
                             ret |-> r.ret, synced |-> r.s.synced,
                             restored |-> Position6(r.s.e) = Position6(Self)]
    /\ perfts' = perfts + 1
    /\ UNCHANGED << loaded, ops, searches, rejected >>

Next ==
    \/ ParseFen
    \/ AttemptMove
    \/ EvalBotMove
    \/ EvalBotMoveIterative
    \/ CalculateAllPossibleMoves

Spec == Init /\ [][Next]_vars

(***************************************************************************)
(* Properties of the engine.                                               *)
(***************************************************************************)

\* the number of times x occurs in list
Occurrences(list, x) == Cardinality({k \in 1..Len(list) : list[k] = x})

\* every piece code's location list holds exactly the squares of the board
\* that hold the piece, each once
ListsMirrorBoard(e) ==
    \A c \in 1..12 : \A sq \in Squares :
        /\ Occurrences(e.piece_locations[c], sq) <= 1
        /\ Occurrences(e.piece_locations[c], sq) = 1 <=> e.board[sq] = c

\* the engine holds a position loaded by one parse_fen on a fresh engine
\* and moved on by successful attempt_move, eval_bot_move and
\* eval_bot_move_iterative calls only
OnlyCommittedMoves ==
    /\ Len(loaded) = 1
    /\ loaded[1] \in WellFormedFens
    /\ perfts = 0
    /\ ~rejected
    /\ ~panicked

\* C1: after any sequence of successful attempt_move, eval_bot_move and
\* eval_bot_move_iterative calls on a position loaded by parse_fen on a
\* fresh engine, the location lists mirror the board: for every piece code
\* c in 1..12 a square occurs in piece_locations[c], exactly once, if and
\* only if the board holds c there.
C1_ListsMirrorBoard == OnlyCommittedMoves => ListsMirrorBoard(Self)

\* the last call was a search or a move count, on a position loaded by
\* parse_fen on a fresh engine
SearchReturned ==
    /\ last_call.op \in {"eval_bot_move", "eval_bot_move_iterative",
                         "calculate_all_possible_moves"}
    /\ ~panicked

\* C2: make followed by unmake is the identity on the position: once
\* find_best_move (with its quiescence_search) or
\* calculate_all_possible_moves returns, the board, the side to move,
\* board_hash, the castle rights, the en-passant target and every location
\* list are what they were at entry.
C2_MakeUnmakeIdentity == SearchReturned => last_call.restored

\* the engine holds a position that parse_fen read from well-formed text
WellFormedLoaded ==
    /\ Len(loaded) >= 1
    /\ \A k \in 1..Len(loaded) : loaded[k] \in WellFormedFens
    /\ ~panicked

\* C3: the tracked board_hash equals hash_board() computed from scratch
\* after parse_fen, after every committed move, and at every node entered
\* by find_best_move or calculate_all_possible_moves.
C3_HashTracksBoard ==
    WellFormedLoaded =>
        /\ board_hash = hash_board(Self)
        /\ "synced" \in DOMAIN last_call => last_call.synced

(***************************************************************************)
(* The rules of chess, read off the board alone: what the generated moves  *)
(* are compared with.  Square 0 is a8 and square 63 is h1, so white pawns  *)
(* move towards row 0.                                                     *)
(***************************************************************************)
RefSign(x) == IF x > 0 THEN 1 ELSE IF x < 0 THEN -1 ELSE 0

RefOwn(piece, white) ==
    IF white THEN piece >= King_W /\ piece <= Pawn_W
    ELSE piece >= King_B /\ piece <= Pawn_B

RefEnemy(piece, white) == piece # Empty /\ ~RefOwn(piece, white)

\* the squares strictly between two squares of one row, column or diagonal
RefBetween(a, b) ==
    LET dr == RowOf(b) - RowOf(a)
        dc == ColOf(b) - ColOf(a)
    IN  {a + k * (8 * RefSign(dr) + RefSign(dc)) :
            k \in 1..(Max(Abs(dr), Abs(dc)) - 1)}

RefClear(b, from, to) == \A sq \in RefBetween(from, to) : b[sq] = Empty

\* the piece on `from` attacks the square `to`
RefAttacks(b, from, to) ==
    LET piece == b[from]
        dr == RowOf(to) - RowOf(from)
        dc == ColOf(to) - ColOf(from)
        straight == (dr = 0 \/ dc = 0) /\ RefClear(b, from, to)
        diagonal == Abs(dr) = Abs(dc) /\ RefClear(b, from, to)
    IN  /\ from # to
        /\ CASE piece \in {King_W, King_B} -> Abs(dr) <= 1 /\ Abs(dc) <= 1
             [] piece \in {Knight_W, Knight_B} ->
                    {Abs(dr), Abs(dc)} = {1, 2}
             [] piece \in {Rook_W, Rook_B} -> straight
             [] piece \in {Bishop_W, Bishop_B} -> diagonal
             [] piece \in {Queen_W, Queen_B} -> straight \/ diagonal
             [] piece = Pawn_W -> dr = -1 /\ Abs(dc) = 1
             [] piece = Pawn_B -> dr = 1 /\ Abs(dc) = 1
             [] OTHER -> FALSE

\* a piece of the other side attacks the square
RefAttacked(b, sq, white) ==
    \E from \in Squares : RefEnemy(b[from], white) /\ RefAttacks(b, from, sq)

\* the side's king stands on an attacked square
RefInCheck(b, white) ==
    \E sq \in Squares :
        /\ b[sq] = (IF white THEN King_W ELSE King_B)
        /\ RefAttacked(b, sq, white)

\* the board after the move: a pawn that moves to another column onto an
\* empty square takes the pawn beside it, a king that moves two columns
\* brings its rook over, a pawn on the last row becomes the piece `data`
RefAfter(b, from, to, data) ==
    LET piece == b[from]
        pawn == piece \in {Pawn_W, Pawn_B}
        passant == pawn /\ ColOf(from) # ColOf(to) /\ b[to] = Empty
        castle == piece \in {King_W, King_B}
                  /\ Abs(ColOf(to) - ColOf(from)) = 2
        corner == IF ColOf(to) > ColOf(from) THEN from + 3 ELSE from - 4
        placed == IF pawn /\ RowOf(to) \in {0, 7} /\ data # Empty
                  THEN data ELSE piece
    IN  [sq \in Squares |->
            IF sq = to THEN placed
            ELSE IF sq = from THEN Empty
            ELSE IF passant /\ sq = 8 * RowOf(from) + ColOf(to) THEN Empty
            ELSE IF castle /\ sq = corner THEN Empty
            ELSE IF castle /\ sq = (from + to) \div 2 THEN b[corner]
            ELSE b[sq]]

\* the move starts on a piece of the side to move and leaves that side's
\* king unattacked
RefKeepsKingSafe(e, mov) ==
    /\ RefOwn(e.board[mov.from], e.white_turn)
    /\ ~RefInCheck(RefAfter(e.board, mov.from, mov.to, mov.data),
                   e.white_turn)

\* C4: every move returned by get_all_valid_moves, and so every entry of
\* the public list after any sequence of committed moves, starts on a piece
\* of the side to move and, once made, leaves the mover's king on a square
\* the opponent does not attack.
C4_MovesKeepKingSafe ==
    OnlyCommittedMoves =>
        /\ \A k \in 1..Len(all_valid_moves) :
                RefKeepsKingSafe(Self, all_valid_moves[k])
        /\ \A gen \in {get_all_valid_moves(Self, FALSE, << >>)} :
                \A k \in 1..Len(gen.moves) :
                    RefKeepsKingSafe(Self, gen.moves[k])

\* a move of the piece on `from` to `to` that the rules allow before the
\* safety of the mover's own king is looked at
RefPseudoLegal(e, from, to) ==
    LET b == e.board
        piece == b[from]
        white == e.white_turn
        dir == IF white THEN -1 ELSE 1
        beside == 8 * RowOf(from) + ColOf(to)
        corner == IF ColOf(to) > ColOf(from) THEN from + 3 ELSE from - 4
    IN  /\ RefOwn(piece, white)
        /\ ~RefOwn(b[to], white)
        /\ IF piece \in {Pawn_W, Pawn_B}
           THEN \/ to = from + 8 * dir /\ b[to] = Empty
                \/ /\ RowOf(from) = (IF white THEN 6 ELSE 1)
                   /\ to = from + 16 * dir
                   /\ b[from + 8 * dir] = Empty
                   /\ b[to] = Empty
                \/ RefAttacks(b, from, to) /\ RefEnemy(b[to], white)
                \/ /\ RefAttacks(b, from, to)
                   /\ to = e.en_passant_square
                   /\ b[to] = Empty
                   /\ RowOf(from) = (IF white THEN 3 ELSE 4)
                   /\ b[beside] = (IF white THEN Pawn_B ELSE Pawn_W)
           ELSE \/ RefAttacks(b, from, to)
                \/ /\ piece \in {King_W, King_B}
                   /\ from = (IF white THEN 60 ELSE 4)
                   /\ to \in {from + 2, from - 2}
                   /\ HasFlag(e.castle_status,
                              IF white
                              THEN IF to > from THEN WHITE_KING ELSE WHITE_QUEEN
                              ELSE IF to > from THEN BLACK_KING ELSE BLACK_QUEEN)
                   /\ b[corner] = (IF white THEN Rook_W ELSE Rook_B)
                   /\ RefClear(b, from, corner)
                   /\ \A sq \in {from, (from + to) \div 2, to} :
                            ~RefAttacked(b, sq, white)

\* the pieces a pawn that arrives on `to` may become, Empty for every
\* other move
RefPromotions(e, from, to) ==
    IF e.board[from] = Pawn_W /\ RowOf(to) = 0
    THEN {Queen_W, Rook_W, Bishop_W, Knight_W}
    ELSE IF e.board[from] = Pawn_B /\ RowOf(to) = 7
    THEN {Queen_B, Rook_B, Bishop_B, Knight_B}
    ELSE {Empty}

\* the legal moves of the side to move
RefLegalMoves(e) ==
    UNION { { EvalMove(from, to, data) : data \in RefPromotions(e, from, to) } :
            <<from, to>> \in
                { ft \in Squares \X Squares :
                    /\ ft[1] # ft[2]
                    /\ RefPseudoLegal(e, ft[1], ft[2])
                    /\ ~RefInCheck(RefAfter(e.board, ft[1], ft[2], Empty),
                                   e.white_turn) } }

\* C5: the generated move list is complete: every legal move of the side
\* to move appears in the result of get_all_valid_moves(false), an
\* en-passant capture of a pawn that gives check included.
C5_MoveListComplete ==
    OnlyCommittedMoves =>
        \A gen \in {get_all_valid_moves(Self, FALSE, << >>)} :
            \A mov \in RefLegalMoves(Self) :
                \E k \in 1..Len(gen.moves) : gen.moves[k] = mov

\* the step is a call of eval_bot_move_iterative
IterativeCall ==
    /\ searches' = searches + 1
    /\ last_call'.op = "eval_bot_move_iterative"

\* the iterations of the call that ran to completion
CompletedIterations(call) ==
    {k \in 1..Len(call.iterations) : call.iterations[k].completed}

LastCompleted(call) ==
    CHOOSE k \in CompletedIterations(call) :
        \A j \in CompletedIterations(call) : j <= k

\* C6: in eval_bot_move_iterative the move stored in best_move, and then
\* applied, is the best move found by an iteration of the current call
\* that ran to completion; an iteration the time budget cut off never
\* changes best_move, and best_move stays as it was when no iteration
\* completes.
C6_CommitsCompletedIteration ==
    [][ (IterativeCall /\ ~panicked' /\ (last_call'.ret \/ best_move' # best_move))
            => /\ CompletedIterations(last_call') # {}
               /\ last_call'.iterations[LastCompleted(last_call')].found
                      = << best_move' >> ]_vars
\* the fields attempt_move must leave alone when it refuses a move
Frame(e) ==
    << e.board, e.white_turn, e.castle_status, e.en_passant_square,
       e.move_count, e.move_rep_count, e.board_hash, e.piece_locations,
       e.repetition_history >>

Listed(moves, from, to) ==
    \E k \in 1..Len(moves) : moves[k].from = from /\ moves[k].to = to

\* attempt_move has to refuse the pair; draw is what check_for_draw returns
MustRefuse(e, moves, draw, from, to) ==
    \/ from = to
    \/ e.board[from] = Empty
    \/ ~RefOwn(e.board[from], e.white_turn)
    \/ ~Listed(moves, from, to)
    \/ draw

\* C7: attempt_move(from, to) returns false and leaves the board, the side
\* to move, the castle rights, the en-passant square, the move counters,
\* the hash, the location lists and the repetition history unchanged
\* whenever from = to, the from square is empty, the piece on it belongs to
\* the side not to move, (from, to) is not in the legal move list or
\* check_for_draw() is true; it returns true only when it applied a move of
\* the list (a call that panics returns nothing).  Every square is tried
\* as from, and as to the same square, the squares of ProbeSquares and every
\* square some listed move goes to.
C7_AttemptMoveRefuses ==
    (~panicked /\ Len(loaded) >= 1) =>
        /\ \A e \in {Self} :
           \A gen \in {get_all_valid_moves(e, FALSE, << >>)} :
           \A draw \in {check_for_draw(e)} :
                \A from \in Squares :
                \A to \in {from} \cup ProbeSquares
                          \cup {gen.moves[k].to : k \in 1..Len(gen.moves)} :
                    MustRefuse(e, gen.moves, draw, from, to) =>
                        \A r \in {AttemptWith(e, from, to, gen)} :
                            /\ ~r.ret
                            /\ ~r.e.panicked
                            /\ Frame(r.e) = Frame(e)
        /\ (last_call.op = "attempt_move" /\ last_call.ret) =>
                /\ board[last_call.applied[1]] = Empty
                /\ RefOwn(board[last_call.applied[2]], ~white_turn)

\* attempt_move has refused a call because check_for_draw() is true
C7_Witness ==
    /\ last_call.op = "attempt_move"
    /\ ~last_call.ret
    /\ ~panicked
    /\ check_for_draw(Self)

\* C8: parse_fen leaves the whole engine state unchanged when its input
\* does not split into exactly six fields at the spaces.
C8_WrongFieldCountIgnored ==
    ~panicked => \A fen \in WrongCountFens : parse_fen(Self, fen) = Self

\* parse_fen has been given a string of five or of seven fields by an
\* engine that held a position
C8_Witness ==
    /\ last_call.op = "parse_fen"
    /\ Len(loaded) = 2
    /\ loaded[1] \in WellFormedFens
    /\ loaded[2] \in WrongCountFens
    /\ ~panicked

\* the fields parse_fen must leave alone on malformed input
Loaded(e) ==
    << e.board, e.piece_locations, e.white_turn, e.castle_status,
       e.move_count, e.move_rep_count >>

\* C9: on malformed input, a six-field string with an unknown letter in
\* the placement field or with a clock that is no number included,
\* parse_fen returns without mutating the board, the location lists, the
\* side to move, the castle rights or the counters.
C9_MalformedFenIgnored ==
    ~panicked =>
        \A fen \in MalformedFens : \A r \in {parse_fen(Self, fen)} :
            ~r.panicked /\ Loaded(r) = Loaded(Self)

\* C10: loading is idempotent and independent of the position held
\* before: parse_fen(x) on an engine that holds a position, the one x
\* describes included, yields the state parse_fen(x) yields on a fresh
\* engine.
C10_LoadIndependentOfPrior ==
    ~panicked =>
        \A x \in WellFormedFens :
            Frame(parse_fen(Self, x)) = Frame(parse_fen(EngineNew, x))

\* the engine is as parse_fen left a fresh engine, the en-passant field of
\* the text being "-"
LoadedWithoutPassant ==
    /\ Len(loaded) = 1
    /\ loaded[1] \in WellFormedFens
    /\ Split(loaded[1], " ")[4] = <<"-">>
    /\ last_call.op = "parse_fen"
    /\ ~panicked

\* the move takes a pawn to another column onto an empty square
PawnOntoEmpty(e, mov) ==
    /\ e.board[mov.from] \in {Pawn_W, Pawn_B}
    /\ ColOf(mov.from) # ColOf(mov.to)
    /\ e.board[mov.to] = Empty

\* C11: when no en-passant capture is available the en-passant target is
\* -1: after Engine::new() and parse_fen of a text whose en-passant field
\* is "-", en_passant_square is -1 and no capture by a pawn onto an empty
\* square is generated.
C11_NoPassantTarget ==
    LoadedWithoutPassant =>
        /\ en_passant_square = -1
        /\ \A k \in 1..Len(all_valid_moves) :
                ~PawnOntoEmpty(Self, all_valid_moves[k])

\* C12: check_for_draw returns false whenever it is black's turn: the
\* fifty-move condition, the king-versus-king condition and the threefold
\* condition are reported only when white is to move.
C12_NoDrawOnBlacksTurn ==
    (WellFormedLoaded /\ ~white_turn) => ~check_for_draw(Self)

(***************************************************************************)
(* A game of knight moves, for the repetition rule: the host loads         *)
(* FenShuttle and plays moves of ShuttleInputs by attempt_move.            *)
(* last_call.reached lists the positions the committed moves have reached  *)
(* from the last capture or pawn move on, the position that move produced  *)
(* first.                                                                  *)
(***************************************************************************)
\* "n3k3/p7/8/8/8/8/8/N3K3 b - - 0 1": a pawn move, then knights that go out and back
FenShuttle ==
    << "n", "3", "k", "3", "/", "p", "7", "/", "8", "/", "8", "/", "8",
    "/", "8", "/", "8", "/", "N", "3", "K", "3", " ", "b", " ", "-",
    " ", "-", " ", "0", " ", "1" >>

\* plies played in the game of knight moves
MaxPlies == 9

ShuttleInputs ==
    { <<8, 16>>, <<8, 24>>, <<56, 41>>, <<41, 56>>, <<56, 50>>, <<50, 56>>,
      <<0, 17>>, <<17, 0>>, <<0, 10>>, <<10, 0>> }

\* what makes two positions the same for the repetition rule
RepetitionKey(e) ==
    << e.board, e.castle_status, e.en_passant_square, e.white_turn >>

\* the move from board b took a piece or moved a pawn
Irreversible(b, from, to) ==
    b[to] # Empty \/ b[from] \in {Pawn_W, Pawn_B}

LoadShuttle ==
    /\ Len(loaded) = 0
    /\ Becomes(parse_fen(Self, FenShuttle))
    /\ loaded' = << FenShuttle >>
    /\ last_call' = [op |-> "parse_fen", ret |-> TRUE, reached |-> << >>]
    /\ UNCHANGED << ops, searches, perfts, rejected >>

ShuttleMove ==
    /\ ~panicked
    /\ Len(loaded) = 1
    /\ ops < MaxPlies
    /\ \E input \in ShuttleInputs :
       \E r \in {attempt_move(Self, input[1], input[2])} :
            /\ r.ret
            /\ Becomes(r.e)
            /\ last_call' =
                   [op |-> "attempt_move", ret |-> TRUE, applied |-> input,
                    reached |->
                        IF Irreversible(board, input[1], input[2])
                        THEN << RepetitionKey(r.e) >>
                        ELSE Append(last_call.reached, RepetitionKey(r.e))]
    /\ ops' = ops + 1
    /\ UNCHANGED << loaded, searches, perfts, rejected >>

NextRepetition == LoadShuttle \/ ShuttleMove

SpecRepetition == Init /\ [][NextRepetition]_vars

\* C13: whenever the same position with white to move has been reached
\* three times through committed moves with no pawn move or capture
\* between the first and the third occurrence, check_for_draw() returns
\* true at the third occurrence, also when the first occurrence was
\* produced by a capture or a pawn move.
C13_ThreefoldReported ==
    ( /\ "reached" \in DOMAIN last_call
      /\ ~panicked
      /\ white_turn
      /\ Occurrences(last_call.reached, RepetitionKey(Self)) >= 3 )
        => check_for_draw(Self)

\* the rules allow the king on `from` to castle to `to`: the right is
\* set, the rook stands on its corner, the squares between king and rook
\* are empty and the king's square, the square it crosses and the square it
\* lands on are not attacked
RefCastleAllowed(e, from, to) ==
    LET white == e.white_turn
        corner == IF to > from THEN from + 3 ELSE from - 4
    IN  /\ from = (IF white THEN 60 ELSE 4)
        /\ HasFlag(e.castle_status,
                   IF white
                   THEN IF to > from THEN WHITE_KING ELSE WHITE_QUEEN
                   ELSE IF to > from THEN BLACK_KING ELSE BLACK_QUEEN)
        /\ e.board[corner] = (IF white THEN Rook_W ELSE Rook_B)
        /\ RefClear(e.board, from, corner)
        /\ \A sq \in {from, (from + to) \div 2, to} :
                ~RefAttacked(e.board, sq, white)

\* the move takes a king two columns along its row
KingTwoColumns(e, mov) ==
    /\ e.board[mov.from] \in {King_W, King_B}
    /\ RowOf(mov.from) = RowOf(mov.to)
    /\ Abs(ColOf(mov.to) - ColOf(mov.from)) = 2

CommittedMove(call, chosen) ==
    IF call.op = "attempt_move" THEN call.applied
    ELSE << chosen.from, chosen.to >>

\* the square a pawn passes over on a two-square push, -1 for any other move
RefPassedOver(b, from, to) ==
    IF b[from] \in {Pawn_W, Pawn_B} /\ Abs(from - to) = 16
    THEN (from + to) \div 2
    ELSE -1

\* C15: after every committed move the en passant target is the square
\* passed over if the move was a two-square pawn push, and -1 after every
\* other move.
C15_PassantTargetFollowsMove ==
    [][ (ops' = ops + 1 /\ ~panicked')
            => \A mv \in {CommittedMove(last_call', best_move')} :
                   en_passant_square' = RefPassedOver(board, mv[1], mv[2]) ]_vars

C15_Witness ==
    /\ loaded = << FenDoublePush >>
    /\ last_call.op = "attempt_move"
    /\ last_call.ret
    /\ last_call.applied = << 48, 32 >>
    /\ en_passant_square = 40
    /\ ~white_turn
    /\ ~panicked

(***************************************************************************)
(* Mating positions, searched deeper than MaxDepth.                        *)
(***************************************************************************)
\* "6nk/6pp/8/4N3/8/8/8/K7 w - - 0 1": a mate in one, Ne5-f7, on a board without sliding pieces
FenSmothered ==
    << "6", "n", "k", "/", "6", "p", "p", "/", "8", "/", "4", "N", "3",
    "/", "8", "/", "8", "/", "8", "/", "K", "7", " ", "w", " ", "-",
    " ", "-", " ", "0", " ", "1" >>

\* "6nk/6pp/8/6N1/8/8/8/K7 w - - 0 1": the same mate from the other side, Ng5-f7
FenSmotheredWing ==
    << "6", "n", "k", "/", "6", "p", "p", "/", "8", "/", "6", "N", "1",
    "/", "8", "/", "8", "/", "8", "/", "K", "7", " ", "w", " ", "-",
    " ", "-", " ", "0", " ", "1" >>

MateFens == { FenSmothered, FenSmotheredWing }

MaxMateDepth == 2

\* the instants at which the budget may run out in a deeper search
MateCuts ==
    { c \in [iter : 2..(MaxMateDepth + 1), at : 0..1] :
        ~(c.iter = MaxMateDepth + 1 /\ c.at = 0) }

LoadMate ==
    /\ ~panicked
    /\ Len(loaded) < MaxLoads
    /\ ops = 0
    /\ \E fen \in MateFens :
            /\ Becomes(parse_fen(Self, fen))
            /\ loaded' = Append(loaded, fen)
    /\ last_call' = [op |-> "parse_fen", ret |-> TRUE]
    /\ UNCHANGED << ops, searches, perfts, rejected >>

\* the castling rights left by a move: a right is lost when its king or
\* its rook leaves the home square, or the rook is captured there
RefRightsAfter(status, from, to) ==
    LET lose(st, flag, king, rook) ==
            IF from = king \/ from = rook \/ to = rook
            THEN ClearFlag(st, flag) ELSE st
    IN  lose(lose(lose(lose(status, WHITE_KING, 60, 63), WHITE_QUEEN, 60, 56),
                  BLACK_KING, 4, 7), BLACK_QUEEN, 4, 0)

\* the position after a move, under the rules
RefPositionAfter(e, mov) ==
    [e EXCEPT !.board = RefAfter(e.board, mov.from, mov.to, mov.data),
              !.white_turn = ~e.white_turn,
              !.castle_status = RefRightsAfter(e.castle_status, mov.from,
                                               mov.to),
              !.en_passant_square = RefPassedOver(e.board, mov.from, mov.to)]

\* the legal moves that checkmate
RefMatingMoves(e) ==
    { mov \in RefLegalMoves(e) :
        \A after \in {RefPositionAfter(e, mov)} :
            /\ RefInCheck(after.board, after.white_turn)
            /\ RefLegalMoves(after) = {} }

\* find_best_move(false, depth, 0, i32::MIN, i32::MAX), called by the host
FindBestMove ==
    /\ CanSearch
    /\ \E depth \in 1..MaxMateDepth :
       \E r \in {find_best_move(NewSearch(Self, NoCut), FALSE, depth, 0,
                                I32_MIN, I32_MAX)} :
            /\ Becomes(r.s.e)
            /\ last_call' = [op |-> "find_best_move", ret |-> r.ret,
                             depth |-> depth, hits |-> r.s.hits,
                             negated |-> r.s.negated,
                             mates |-> {<< mov.from, mov.to >> :
                                            mov \in RefMatingMoves(Self)}]
    /\ searches' = searches + 1
    /\ UNCHANGED << loaded, ops, perfts, rejected >>

\* eval_bot_move_iterative(), the clock running out at a later instant
DeepenBotMove ==
    /\ CanSearch
    /\ \E cut \in MateCuts :
       \E r \in {eval_bot_move_iterative(Self, cut)} :
            /\ Becomes(r.e)
            /\ last_call' = [op |-> "eval_bot_move_iterative", ret |-> r.ret,
                             iterations |-> r.iterations, hits |-> r.hits,
                             negated |-> r.negated, posts |-> r.posts]
            /\ ops' = IF r.ret THEN ops + 1 ELSE ops
            /\ rejected' = (rejected \/ ~r.ret)
    /\ searches' = searches + 1
    /\ UNCHANGED << loaded, perfts >>

NextMate == LoadMate \/ AttemptMove \/ FindBestMove \/ DeepenBotMove

SpecMate == Init /\ [][NextMate]_vars

\* C16: when the side to move has a mate in one, find_best_move at ply 0
\* with depth 2 or more and the full window leaves in
\* best_move_this_iteration a move that checkmates, and returns a score of
\* at least 99,999,990.
C16_MateInOneFound ==
    ( /\ last_call.op = "find_best_move"
      /\ last_call.depth >= 2
      /\ last_call.mates # {}
      /\ ~panicked )
        => /\ << best_move_this_iteration.from, best_move_this_iteration.to >>
                  \in last_call.mates
           /\ last_call.ret >= 99999990

\* C17: saved_evaluations is empty after every operation that changes the
\* live position: a committed move (finish_turn) and a load that parse_fen
\* accepts (use_historical_board is not among the modelled entry points).
C17_TableClearedOnChange ==
    [][ ( /\ ~panicked'
          /\ \/ ops' = ops + 1
             \/ /\ last_call'.op = "parse_fen"
                /\ Len(loaded') = Len(loaded) + 1
                /\ loaded'[Len(loaded')] \in WellFormedFens \cup MateFens )
            => saved_evaluations' = << >> ]_vars

\* a stored entry may stand for a search of `depth` in the window
\* (alpha, beta)
RefUsable(saved, depth, alpha, beta) ==
    /\ saved.depth >= depth
    /\ \/ saved.saved_type = SavedEvalType.Exact
       \/ saved.saved_type = SavedEvalType.Alpha /\ saved.eval <= alpha
       \/ saved.saved_type = SavedEvalType.Beta /\ saved.eval >= beta

\* the bounds tried around a stored value
ProbeBounds(eval) ==
    {I32_MIN + 1, eval - 1, eval, eval + 1, 0, I32_MAX - 1}

\* C18: find_best_move never returns the value of a saved_evaluations
\* entry whose stored depth is less than the remaining depth, and returns
\* the value of an entry of sufficient depth only if the entry is Exact,
\* or Alpha with a value <= alpha, or Beta with a value >= beta.
C18_TableProbeSound ==
    /\ ("hits" \in DOMAIN last_call) =>
            \A h \in last_call.hits :
                RefUsable(h.saved, h.depth, h.alpha, h.beta)
    /\ (~panicked /\ board_hash \in DOMAIN saved_evaluations) =>
            \A saved \in {saved_evaluations[board_hash]} :
            \A depth \in 1..(MaxMateDepth + 1) :
            \A alpha \in ProbeBounds(saved.eval) :
            \A beta \in ProbeBounds(saved.eval) :
                SavedHit(Self, depth, alpha, beta)
                    => RefUsable(saved, depth, alpha, beta)

C18_Witness ==
    /\ "hits" \in DOMAIN last_call
    /\ ~panicked
    /\ \E h \in last_call.hits : h.saved.saved_type = SavedEvalType.Beta
    /\ board_hash \in DOMAIN saved_evaluations
    /\ saved_evaluations[board_hash].depth < MaxMateDepth + 1

\* the iterations of the last call of the driver that it completed with a
\* mate score, found (the value of the iteration, or the score of the move
\* it chose) or suffered
MateIterations(call) ==
    { k \in 1..Len(call.iterations) :
        /\ call.iterations[k].completed
        /\ \/ Abs(call.iterations[k].score) >= MateScore
           \/ Abs(call.iterations[k].ret) >= MateScore }

\* C19: the iterative driver stops deepening after the first completed
\* iteration whose best score has an absolute value of at least
\* 99,999,999, whether a forced mate was found or the side to move is
\* being mated: no further iteration is started.
C19_StopsOnMate ==
    (last_call.op = "eval_bot_move_iterative" /\ ~panicked) =>
        \A k \in MateIterations(last_call) : Len(last_call.iterations) = k

(***************************************************************************)
(* Counting move sequences.                                                *)
(***************************************************************************)
MaxPerftDepth == 2

\* the number of sequences of `depth` legal moves, under the rules
RECURSIVE RefPerft(_, _)
RECURSIVE RefPerftOver(_, _, _)
RefPerftOver(e, moves, depth) ==
    IF moves = {} THEN 0
    ELSE LET mov == CHOOSE m \in moves : TRUE
         IN  RefPerft(RefPositionAfter(e, mov), depth - 1)
             + RefPerftOver(e, moves \ {mov}, depth)

RefPerft(e, depth) ==
    IF depth <= 0 THEN 1 ELSE RefPerftOver(e, RefLegalMoves(e), depth)

\* "2n1k3/1P6/8/8/8/8/8/4K3 b - - 0 1": FenPromotion with black to move
FenPromotionBlack ==
    << "2", "n", "1", "k", "3", "/", "1", "P", "6", "/", "8", "/", "8",
    "/", "8", "/", "8", "/", "8", "/", "4", "K", "3", " ", "b", " ",
    "-", " ", "-", " ", "0", " ", "1" >>

PerftFens == { FenPromotionBlack, FenCastleFree, FenShuttle }

LoadCounted ==
    /\ Len(loaded) = 0
    /\ \E fen \in PerftFens :
            /\ Becomes(parse_fen(Self, fen))
            /\ loaded' = << fen >>
    /\ last_call' = [op |-> "parse_fen", ret |-> TRUE]
    /\ UNCHANGED << ops, searches, perfts, rejected >>

\* calculate_all_possible_moves(depth), with the count the rules give
CountMoves ==
    /\ CanSearch
    /\ \E depth \in 1..MaxPerftDepth :
       \E r \in {calculate_all_possible_moves(NewSearch(Self, NoCut), depth)} :
            /\ Becomes(r.s.e)
            /\ last_call' = [op |-> "calculate_all_possible_moves",
                             ret |-> r.ret, depth |-> depth,
                             expected |-> RefPerft(Self, depth)]
    /\ perfts' = perfts + 1
    /\ UNCHANGED << loaded, ops, searches, rejected >>

NextPerft == LoadCounted \/ AttemptMove \/ CountMoves

SpecPerft == Init /\ [][NextPerft]_vars

\* C20: calculate_all_possible_moves(depth) returns the exact number of
\* legal move sequences of that length, also when a promotion happens
\* before the last ply.
C20_PerftExact ==
    ( /\ last_call.op = "calculate_all_possible_moves"
      /\ ops = 1
      /\ perfts = 1 )
        => /\ ~panicked
           /\ last_call.ret = last_call.expected

(***************************************************************************)
(* The standard start position.                                            *)
(***************************************************************************)
\* "rnbqkbnr/pppppppp/8/8/8/8/PPPPPPPP/RNBQKBNR w KQkq - 0 1": the standard start position
FenStart ==
    << "r", "n", "b", "q", "k", "b", "n", "r", "/", "p", "p", "p", "p",
    "p", "p", "p", "p", "/", "8", "/", "8", "/", "8", "/", "8", "/",
    "P", "P", "P", "P", "P", "P", "P", "P", "/", "R", "N", "B", "Q",
    "K", "B", "N", "R", " ", "w", " ", "K", "Q", "k", "q", " ", "-",
    " ", "0", " ", "1" >>

MaxStartDepth == 3

MaxStartPlies == 2

\* the published numbers of move sequences from the start position
StartCounts == << 20, 400, 8902 >>

LoadStart ==
    /\ Len(loaded) = 0
    /\ Becomes(parse_fen(Self, FenStart))
    /\ loaded' = << FenStart >>
    /\ last_call' = [op |-> "parse_fen", ret |-> TRUE]
    /\ UNCHANGED << ops, searches, perfts, rejected >>

\* attempt_move(from_index, to_index) with a move of the list
StartMove ==
    /\ ~panicked
    /\ Len(loaded) = 1
    /\ ops < MaxStartPlies
    /\ perfts = 0
    /\ \E gen \in {get_all_valid_moves(Self, FALSE, << >>)} :
       \E k \in 1..Len(gen.moves) :
       \E r \in {AttemptWith(Self, gen.moves[k].from, gen.moves[k].to, gen)} :
            /\ Becomes(r.e)
            /\ last_call' = [op |-> "attempt_move", ret |-> r.ret,
                             applied |-> IF r.ret
                                         THEN << gen.moves[k].from,
                                                 gen.moves[k].to >>
                                         ELSE << >>]
            /\ ops' = IF r.ret THEN ops + 1 ELSE ops
            /\ rejected' = (rejected \/ ~r.ret)
    /\ UNCHANGED << loaded, searches, perfts >>

\* calculate_all_possible_moves(depth) on the position as loaded
CountStart ==
    /\ CanSearch
    /\ ops = 0
    /\ \E depth \in 1..MaxStartDepth :
       \E r \in {calculate_all_possible_moves(NewSearch(Self, NoCut), depth)} :
            /\ Becomes(r.s.e)
            /\ last_call' = [op |-> "calculate_all_possible_moves",
                             ret |-> r.ret, depth |-> depth]
    /\ perfts' = perfts + 1
    /\ UNCHANGED << loaded, ops, searches, rejected >>

NextStart == LoadStart \/ StartMove \/ CountStart

SpecStart == Init /\ [][NextStart]_vars

\* C21: from the standard start position calculate_all_possible_moves
\* returns 20 for depth 1, 400 for depth 2 and 8,902 for depth 3.
C21_StartCounts ==
    ( /\ last_call.op = "calculate_all_possible_moves"
      /\ perfts = 1
      /\ last_call.depth \in DOMAIN StartCounts )
        => /\ ~panicked
           /\ last_call.ret = StartCounts[last_call.depth]

C21_Witness ==
    /\ loaded = << FenStart >>
    /\ ops = 0
    /\ perfts = 1
    /\ last_call.op = "calculate_all_possible_moves"
    /\ last_call.depth = 3
    /\ last_call.ret = 8902

(***************************************************************************)
(* The bot's turn.                                                         *)
(***************************************************************************)
\* a step that is a call of eval_bot_move_iterative
IterativeStep ==
    /\ searches' = searches + 1
    /\ last_call'.op = "eval_bot_move_iterative"
    /\ ~panicked'

\* the position and the counters a refused call must leave alone
Untouched ==
    /\ board' = board
    /\ white_turn' = white_turn
    /\ castle_status' = castle_status
    /\ en_passant_square' = en_passant_square
    /\ move_count' = move_count
    /\ move_rep_count' = move_rep_count

\* C22: eval_bot_move_iterative returns false when check_for_draw() is true
\* or when the search result has the from and to squares of the best_move
\* stored before, and whenever it returns false no move is applied: board,
\* side to move, castle rights, en passant square, move_count and
\* move_rep_count are as before the call.
C22_RefusalAppliesNothing ==
    [][ IterativeStep =>
            /\ ( \/ check_for_draw(Self)
                 \/ /\ best_move'.to = best_move.to
                    /\ best_move'.from = best_move.from )
                    => ~last_call'.ret
            /\ ~last_call'.ret => Untouched ]_vars

(***************************************************************************)
(* Promotions in the move list.                                            *)
(***************************************************************************)
\* the entries of the list with the squares of entry k
SameSquares(moves, k) ==
    { j \in 1..Len(moves) :
        moves[j].from = moves[k].from /\ moves[j].to = moves[k].to }

\* the four promotion codes of a colour
RefPromotionCodes(white) ==
    IF white THEN { Queen_W, Rook_W, Bishop_W, Knight_W }
    ELSE { Queen_B, Rook_B, Bishop_B, Knight_B }

\* a pawn arriving on the opposing back rank
RefReachesBackRank(b, from, to) ==
    \/ b[from] = Pawn_W /\ to \in 0..7
    \/ b[from] = Pawn_B /\ to \in 56..63

\* C23: in the legal move list a pawn move onto the opposing back rank is
\* exactly four entries with the same squares and the promotion codes
\* queen, rook, bishop and knight of the mover's colour; every other move
\* is one entry with promotion Empty.
C23_PromotionsExpanded ==
    (~panicked /\ Len(loaded) >= 1) =>
        \A gen \in {get_all_valid_moves(Self, FALSE, << >>)} :
            ~gen.panic =>
                \A k \in 1..Len(gen.moves) :
                    IF RefReachesBackRank(board, gen.moves[k].from,
                                          gen.moves[k].to)
                    THEN /\ Cardinality(SameSquares(gen.moves, k)) = 4
                         /\ { gen.moves[j].data :
                                j \in SameSquares(gen.moves, k) }
                            = RefPromotionCodes(board[gen.moves[k].from] >= 7)
                    ELSE /\ SameSquares(gen.moves, k) = {k}
                         /\ gen.moves[k].data = Empty

\* a step that is a call of eval_bot_move or eval_bot_move_iterative
BotStep ==
    /\ searches' = searches + 1
    /\ last_call'.op \in {"eval_bot_move", "eval_bot_move_iterative"}
    /\ ~panicked'

\* the list holds the move with its promotion code
ListedMove(moves, mov) ==
    \E k \in 1..Len(moves) :
        /\ moves[k].from = mov.from
        /\ moves[k].to = mov.to
        /\ moves[k].data = mov.data

\* C24: eval_bot_move and eval_bot_move_iterative apply only a move of the
\* legal move list of the position at the time of the call; when the side
\* to move has no legal move, or an aborted iteration of the turn before
\* left another move in best_move_this_iteration, no move is applied.
C24_BotAppliesListedMove ==
    [][ (BotStep /\ last_call'.ret) =>
            ListedMove(get_all_valid_moves(Self, FALSE, << >>).moves,
                       best_move') ]_vars

(***************************************************************************)
(* The quiescence search.                                                  *)
(***************************************************************************)
\* a call of eval_bot_move or eval_bot_move_iterative has returned
BotReturned ==
    /\ last_call.op \in {"eval_bot_move", "eval_bot_move_iterative"}
    /\ ~panicked

\* C25: every move quiescence_search recurses on captures a piece standing
\* on its destination square, and the number of occupied squares is
\* strictly smaller after it, so that no recursion path is longer than the
\* number of pieces and the search terminates without a depth limit.
C25_QuiescenceOnlyCaptures ==
    BotReturned =>
        \A t \in last_call.taken :
            /\ t.target # Empty
            /\ t.after < t.before

C25_Witness ==
    /\ BotReturned
    /\ \E t \in last_call.taken : t.target # Empty /\ t.after = t.before - 1

(***************************************************************************)
(* Castle rights.                                                          *)
(***************************************************************************)
\* the rights set in a status
RefRights(status) ==
    { f \in { WHITE_KING, WHITE_QUEEN, BLACK_KING, BLACK_QUEEN } :
        (status \div f) % 2 = 1 }

\* the rights a piece leaving `from` gives up
RefRightsLost(piece, from) ==
    CASE piece = King_W -> { WHITE_KING, WHITE_QUEEN }
      [] piece = King_B -> { BLACK_KING, BLACK_QUEEN }
      [] piece = Rook_W /\ from = 56 -> { WHITE_QUEEN }
      [] piece = Rook_W /\ from = 63 -> { WHITE_KING }
      [] piece = Rook_B /\ from = 0 -> { BLACK_QUEEN }
      [] piece = Rook_B /\ from = 7 -> { BLACK_KING }
      [] OTHER -> {}

\* the destinations tried: the four castling squares and one other
CastleTargets == { 2, 6, 58, 62, 27 }

\* C26: update_castle_status changes the castle rights only so: a king move
\* clears exactly the two rights of the king's colour and leaves the
\* opponent's alone, a rook move from a1, h1, a8 or h8 clears exactly the
\* one right of that corner, and any other move leaves them unchanged.
C26_CastleRightsFrame ==
    (~panicked /\ Len(loaded) >= 1) =>
        \A from \in Squares : \A to \in CastleTargets :
            RefRights(update_castle_status(Self, from, to).e.castle_status)
                = RefRights(castle_status) \ RefRightsLost(board[from], from)

C26_Witness ==
    /\ loaded = << FenCastleFree >>
    /\ last_call.op = "attempt_move"
    /\ last_call.ret
    /\ last_call.applied[1] = 4
    /\ board[last_call.applied[2]] = King_B
    /\ castle_status = WHITE_KING

(***************************************************************************)
(* A rook taken on its corner.                                             *)
(***************************************************************************)
\* "4k3/8/8/8/8/6nR/8/4K2R b K - 0 1": the knight can take the rook on h1, and the other rook can take back
FenCorner ==
    << "4", "k", "3", "/", "8", "/", "8", "/", "8", "/", "8", "/", "6",
    "n", "R", "/", "8", "/", "4", "K", "2", "R", " ", "b", " ", "K",
    " ", "-", " ", "0", " ", "1" >>

MaxCornerPlies == 3

LoadCorner ==
    /\ Len(loaded) = 0
    /\ Becomes(parse_fen(Self, FenCorner))
    /\ loaded' = << FenCorner >>
    /\ last_call' = [op |-> "parse_fen", ret |-> TRUE, touched |-> {}]
    /\ UNCHANGED << ops, searches, perfts, rejected >>

\* attempt_move(from_index, to_index) with a move of the list; touched
\* collects the squares the committed moves left or arrived on
CornerMove ==
    /\ ~panicked
    /\ Len(loaded) = 1
    /\ ops < MaxCornerPlies
    /\ \E gen \in {get_all_valid_moves(Self, FALSE, << >>)} :
       \E k \in 1..Len(gen.moves) :
       \E r \in {AttemptWith(Self, gen.moves[k].from, gen.moves[k].to, gen)} :
            /\ r.ret
            /\ Becomes(r.e)
            /\ last_call' = [op |-> "attempt_move", ret |-> TRUE,
                             applied |-> << gen.moves[k].from,
                                            gen.moves[k].to >>,
                             touched |-> last_call.touched
                                         \cup { gen.moves[k].from,
                                                gen.moves[k].to }]
    /\ ops' = ops + 1
    /\ UNCHANGED << loaded, searches, perfts, rejected >>

NextCorner == LoadCorner \/ CornerMove

SpecCorner == Init /\ [][NextCorner]_vars

\* the wings on which the move list offers castling
WingsOffered(e) ==
    { k \in 1..2 :
        /\ e.board[Wings(e.white_turn)[k].king]
               = (IF e.white_turn THEN King_W ELSE King_B)
        /\ Listed(get_all_valid_moves(e, FALSE, << >>).moves,
                  Wings(e.white_turn)[k].king, Wings(e.white_turn)[k].to) }

\* C27: castling on a wing is never generated once the original rook of
\* that wing has moved or has been captured on its corner, even if another
\* rook of the colour stands there later: a wing is offered only while no
\* committed move has left or reached the king's and the rook's home
\* squares.
C27_CastlingNeedsOriginalRook ==
    (~panicked /\ Len(loaded) = 1 /\ last_call.op \in {"parse_fen", "attempt_move"}) =>
        \A k \in WingsOffered(Self) :
            /\ Wings(white_turn)[k].king \notin last_call.touched
            /\ Wings(white_turn)[k].rook_sq \notin last_call.touched

(***************************************************************************)
(* The end of a turn.                                                      *)
(***************************************************************************)
\* the move starts the repetition count afresh
RefResets(b, from, to) ==
    b[from] \in {Pawn_W, Pawn_B} \/ b[to] # Empty

\* C28: each committed move flips the side to move, empties the delta
\* stack and adds one to move_count; a pawn move or a capture sets
\* move_rep_count to 0 and empties the repetition history, any other move
\* adds one to move_rep_count and appends exactly one entry, the hash of
\* the new position, to the repetition history.
C28_TurnBookkeeping ==
    [][ (ops' = ops + 1 /\ ~panicked')
            => \A mv \in {CommittedMove(last_call', best_move')} :
                /\ white_turn' = ~white_turn
                /\ board_deltas' = << >>
                /\ move_count' = move_count + 1
                /\ IF RefResets(board, mv[1], mv[2])
                   THEN /\ move_rep_count' = 0
                        /\ repetition_history' = << >>
                   ELSE /\ move_rep_count' = move_rep_count + 1
                        /\ repetition_history'
                               = Append(repetition_history, hash_board(Self)') ]_vars

C28_Witness ==
    /\ ops = 1
    /\ last_call.op = "attempt_move"
    /\ last_call.ret
    /\ move_rep_count >= 1
    /\ Len(repetition_history) >= 1
    /\ repetition_history[Len(repetition_history)] = hash_board(Self)

(***************************************************************************)
(* The negations of the search.                                            *)
(***************************************************************************)
\* a search called by the host has returned
NegationsReturned ==
    /\ last_call.op \in {"find_best_move", "eval_bot_move",
                         "eval_bot_move_iterative"}
    /\ ~panicked

\* C29: no value equal to i32::MIN is negated during a search: every value
\* a recursive find_best_move or quiescence_search call hands back (a mate
\* score, a clamped bound, a saved value, the 0 of a time-out) and every
\* bound handed down as -beta or -alpha is strictly greater than i32::MIN.
C29_NoMinimumNegated ==
    NegationsReturned => \A x \in last_call.negated : x > I32_MIN

C29_Witness ==
    /\ NegationsReturned
    /\ last_call.op = "find_best_move"
    /\ last_call.depth = 2
    /\ last_call.mates # {}
    /\ I32_MIN + 1 \in last_call.negated
    /\ I32_MAX - 1 \in last_call.negated

(***************************************************************************)
(* Move ordering and evaluation.  The engine holds a position loaded by    *)
(* parse_fen on a fresh engine, or reached from it by one move; the moves  *)
(* of a node are generated as find_best_move and quiescence_search         *)
(* generate them and handed to predict_and_order_moves; the host calls     *)
(* evaluate.                                                               *)
(***************************************************************************)
LoadOrder ==
    /\ Len(loaded) = 0
    /\ \E fen \in WellFormedFens :
        /\ Becomes(parse_fen(Self, fen))
        /\ loaded' = << fen >>
    /\ last_call' = [op |-> "parse_fen", ret |-> TRUE]
    /\ UNCHANGED << ops, searches, perfts, rejected >>

\* predict_and_order_moves(&mut valid_moves, &attacked_squares) on the list
\* of a node, all moves or captures only
OrderMoves ==
    /\ ~panicked
    /\ Len(loaded) = 1
    /\ last_call.op # "predict_and_order_moves"
    /\ \E captures_only \in BOOLEAN :
       \E att \in {get_attacked_squares(board, en_passant_square,
                                        piece_locations, white_turn, -1,
                                        TRUE)} :
       \E gen \in {get_all_valid_moves([Self EXCEPT !.pinned_pieces = att.pins],
                                       captures_only, att.arr)} :
            /\ ~att.panic
            /\ ~gen.panic
            /\ last_call' = [op |-> "predict_and_order_moves",
                             moves |-> gen.moves, attacked |-> gen.attacked,
                             ordered |-> predict_and_order_moves(
                                             Self, gen.moves, gen.attacked)]
    /\ Becomes(Self)
    /\ UNCHANGED << loaded, ops, searches, perfts, rejected >>

\* evaluate(), called by the host
Evaluate ==
    /\ ~panicked
    /\ Len(loaded) = 1
    /\ last_call.op # "evaluate"
    /\ IF KingMissing(Self, TRUE) \/ KingMissing(Self, FALSE)
       THEN /\ Becomes([Self EXCEPT !.panicked = TRUE])
            /\ last_call' = [op |-> "evaluate", ret |-> 0]
       ELSE /\ Becomes(Self)
            /\ last_call' = [op |-> "evaluate", ret |-> evaluate(Self)]
    /\ UNCHANGED << loaded, ops, searches, perfts, rejected >>

NextOrder == LoadOrder \/ AttemptMove \/ OrderMoves \/ Evaluate

SpecOrder == Init /\ [][NextOrder]_vars

\* the score of a move: 10 * value(captured) - value(mover) when a piece
\* stands on the destination, less value(mover) when the destination is in
\* the attack map, plus value(promotion piece) for a pawn
RefScore(b, mov, attacked) ==
    (IF b[mov.to] # Empty
     THEN 10 * get_piece_value(b[mov.to]) - get_piece_value(b[mov.from])
     ELSE 0)
    - (IF \E k \in 1..Len(attacked) : attacked[k] = mov.to
       THEN get_piece_value(b[mov.from]) ELSE 0)
    + (IF b[mov.from] \in {Pawn_W, Pawn_B}
       THEN get_piece_value(mov.data) ELSE 0)

\* the place of entry i in the list sorted by non-increasing score, equal
\* scores in the order of the input
RefRank(b, moves, attacked, i) ==
    1 + Cardinality(
            { j \in 1..Len(moves) :
                \/ RefScore(b, moves[j], attacked)
                       > RefScore(b, moves[i], attacked)
                \/ /\ RefScore(b, moves[j], attacked)
                          = RefScore(b, moves[i], attacked)
                   /\ j < i })

\* C30: predict_and_order_moves returns a permutation of its input, no
\* move dropped or duplicated, sorted by non-increasing score with moves of
\* equal score in their generation order, every move carrying its score:
\* entry i of the input is found, scored, at its rank in that order.
C30_OrderedPermutation ==
    (last_call.op = "predict_and_order_moves" /\ ~panicked) =>
        /\ Len(last_call.ordered) = Len(last_call.moves)
        /\ \A i \in 1..Len(last_call.moves) :
              last_call.ordered[RefRank(board, last_call.moves,
                                        last_call.attacked, i)]
                  = [last_call.moves[i] EXCEPT !.score =
                        RefScore(board, last_call.moves[i],
                                 last_call.attacked)]

\* a list with the four promotions of a pawn, moves of equal score, and a
\* move that the ordering brought forward
C30_Witness ==
    /\ last_call.op = "predict_and_order_moves"
    /\ ~panicked
    /\ \E i \in 1..Len(last_call.moves) :
          /\ last_call.moves[i].data \in {Knight_W, Knight_B}
          /\ RefRank(board, last_call.moves, last_call.attacked, i) # i
    /\ \E i, j \in 1..Len(last_call.moves) :
          /\ i < j
          /\ RefScore(board, last_call.moves[i], last_call.attacked)
                 = RefScore(board, last_call.moves[j], last_call.attacked)
    /\ \E i, j \in 1..Len(last_call.moves) :
          /\ i < j
          /\ RefScore(board, last_call.moves[i], last_call.attacked)
                 < RefScore(board, last_call.moves[j], last_call.attacked)

(***************************************************************************)
(* The notifications of the iterative driver.                              *)
(***************************************************************************)
\* the side that was to move when the last call was made
RefMoverWasWhite == IF last_call.ret THEN ~white_turn ELSE white_turn

\* one message for each completed depth, in increasing order, none for the
\* depth the budget cut off
PostedOncePerCompletedDepth(call) ==
    /\ Len(call.posts) = Cardinality(CompletedIterations(call))
    /\ \A k \in 1..Len(call.posts) :
          /\ call.posts[k].depth = k
          /\ call.iterations[k].depth = k
          /\ call.iterations[k].completed

\* the score sent for a depth is the value the search of that depth
\* returned, from white's point of view
PostedBestScore(call, white) ==
    \A k \in 1..Len(call.posts) :
        call.posts[k].eval = (IF white THEN call.iterations[k].ret
                              ELSE -call.iterations[k].ret)

\* C31: during one find_best_move_iterative run post_eval_message is
\* emitted exactly once after each completed depth, in increasing depth
\* order, never for a depth the time budget aborted nor after it, and the
\* score sent is the best score of that depth, negated when black is to
\* move.
C31_PostsEachCompletedDepth ==
    (last_call.op = "eval_bot_move_iterative" /\ ~panicked) =>
        /\ PostedOncePerCompletedDepth(last_call)
        /\ PostedBestScore(last_call, RefMoverWasWhite)

(***************************************************************************)
(* The in_check flag.                                                      *)
(***************************************************************************)
\* C32: after parse_fen and after every committed move the in_check flag
\* is true exactly when the king of the side to move stands on a square
\* attacked by the opponent.
C32_InCheckFlagExact ==
    OnlyCommittedMoves => (in_check <=> RefInCheck(board, white_turn))

(***************************************************************************)
(* The king's square value in evaluate.                                    *)
(***************************************************************************)
\* the endgame weight of a side, in sixteenths, from its material without
\* pawns
RefOwnWeight16(e, white) ==
    EndGameWeight16(count_material(e, white)
                    - Len(e.piece_locations[IF white THEN Pawn_W ELSE Pawn_B])
                      * Value_PAWN)

\* the evaluation of a side: material, square tables with the king's value
\* scaled by one less the side's own weight, and the endgame term against
\* the other king
RefSideEval(e, white) ==
    LET own == e.piece_locations[IF white THEN King_W ELSE King_B][1]
        other == e.piece_locations[IF white THEN King_B ELSE King_W][1]
    IN  count_material(e, white)
        + evaluate_square_tables(e, white, RefOwnWeight16(e, white))
        + evaluate_end_game_position(
              RefOwnWeight16(e, white), ColOf(other), RowOf(other),
              Abs(ColOf(own) - ColOf(other)) + Abs(RowOf(own) - RowOf(other)))

RefEvaluate(e) ==
    IF e.white_turn THEN RefSideEval(e, TRUE) - RefSideEval(e, FALSE)
    ELSE RefSideEval(e, FALSE) - RefSideEval(e, TRUE)

\* C33: in evaluate each side's king piece-square value is scaled by one
\* less that side's own endgame weight, the black king's by the weight of
\* black's non-pawn material and the white king's by the weight of white's:
\* the value returned is the one computed with each side's own weight.
C33_KingScaledByOwnWeight ==
    (last_call.op = "evaluate" /\ ~panicked) =>
        last_call.ret = RefEvaluate(Self)

(***************************************************************************)
(* The rays of the rook, the bishop and the queen.                         *)
(***************************************************************************)
\* the directions a piece slides in, as column and row steps
RefSlides(piece) ==
    LET straight == { <<1, 0>>, <<-1, 0>>, <<0, 1>>, <<0, -1>> }
        diagonal == { <<1, 1>>, <<1, -1>>, <<-1, 1>>, <<-1, -1>> }
    IN  IF piece \in {Rook_W, Rook_B} THEN straight
        ELSE IF piece \in {Bishop_W, Bishop_B} THEN diagonal
        ELSE IF piece \in {Queen_W, Queen_B} THEN straight \cup diagonal
        ELSE {}

\* n steps from a square stay on the board
RefOnBoard(from, dir, n) ==
    /\ ColOf(from) + n * dir[1] \in 0..7
    /\ RowOf(from) + n * dir[2] \in 0..7

RefStep(from, dir, n) == from + n * (dir[1] + 8 * dir[2])

\* the squares of a ray: on the board, on the line of the origin, nothing
\* but empty squares before them, themselves empty or held by the other
\* side
RefRay(b, from, dir) ==
    { RefStep(from, dir, n) : n \in
        { n \in 1..7 :
            /\ RefOnBoard(from, dir, n)
            /\ \A m \in 1..(n - 1) : b[RefStep(from, dir, m)] = Empty
            /\ ~RefOwn(b[RefStep(from, dir, n)], RefOwn(b[from], TRUE)) } }

\* the squares trace_valid_squares produces for the piece on a square
Traced(b, from, dir, update_pins) ==
    trace_valid_squares(b, from, dir[1], dir[2], b[from] >= 7, FALSE,
                        update_pins, ColOf(from), RowOf(from)).arr

\* C34: every square produced for a rook, bishop or queen lies on the same
\* rank, file or diagonal as the origin with only empty squares in between:
\* a ray stops at the board edge and never continues onto the next or the
\* previous row, it includes the first square held by the enemy and stops
\* there, and it stops before the first square held by a friend.
C34_RaysClipAndStop ==
    ~panicked =>
        \A from \in Squares : \A dir \in RefSlides(board[from]) :
        \A update_pins \in BOOLEAN :
            /\ { Traced(board, from, dir, update_pins)[k] :
                   k \in 1..Len(Traced(board, from, dir, update_pins)) }
                   = RefRay(board, from, dir)
            /\ Len(Traced(board, from, dir, update_pins))
                   = Cardinality(RefRay(board, from, dir))

\* a diagonal ray that ends on an enemy piece, listed as a move, and one
\* that runs over empty squares out to the edge of the board
C34_Witness ==
    /\ ~panicked
    /\ Len(loaded) = 1
    /\ \E from \in Squares : \E dir \in RefSlides(board[from]) :
       \E to \in RefRay(board, from, dir) :
          /\ dir[1] # 0 /\ dir[2] # 0
          /\ RefEnemy(board[to], board[from] >= 7)
          /\ Listed(all_valid_moves, from, to)
    /\ \E from \in Squares : \E dir \in RefSlides(board[from]) :
          /\ dir[1] # 0
          /\ Cardinality(RefRay(board, from, dir)) >= 2
          /\ \E to \in RefRay(board, from, dir) :
                ColOf(to) \in {0, 7} /\ board[to] = Empty

=============================================================================
